---- MODULE Spec2Model ----
(***************************************************************************)
(* A model of recokr_ocr_parser: the loader, the preprocessor, the record  *)
(* assembler (parse_preprocessed) and the validator / finalizer.           *)
(*                                                                         *)
(* Python values are modelled as follows.                                  *)
(*   str            a TLA+ string; the regular expressions of the source   *)
(*                  are operators that walk the string character by        *)
(*                  character (Ch, SubSeq, Len).                           *)
(*   Optional[T]    None is <<>>, a present value v is <<v>>.              *)
(*   float weights  integers: every weight the parser produces is          *)
(*                  float() of a string of decimal digits.                 *)
(*   confidence     an integer number of hundredths (100 is 1.0).          *)
(*   dict           a function from its keys; the empty dict is <<>>.      *)
(*   JSON values    records tagged by field t (JNull, JNum, JStr, JList,   *)
(*                  JObj).                                                 *)
(* A Warning is modelled by its code, severity and context.  Its message   *)
(* is a text computed from code and context alone at every call site of    *)
(* add_warning, it is not part of the dedup key and nothing reads it, so   *)
(* it is left out.                                                         *)
(***************************************************************************)
EXTENDS Integers, Sequences, FiniteSets, TLC

VARIABLES pc, source, payload, raw_text, line_infos, idx, record, warnings,
          direction_source, candidate_time_weight, raised, call

vars == <<pc, source, payload, raw_text, line_infos, idx, record, warnings,
          direction_source, candidate_time_weight, raised, call>>

(***************************************************************************)
(* Python basics                                                           *)
(***************************************************************************)
None == <<>>

Some(v) == <<v>>

Val(o) == o[1]

Ch(s, i) == SubSeq(s, i, i)

Max(a, b) == IF a >= b THEN a ELSE b

Min(a, b) == IF a <= b THEN a ELSE b

Abs(a) == IF a < 0 THEN -a ELSE a

Upper == {"A", "B", "C", "D", "E", "F", "G", "H", "I", "J", "K", "L", "M",
          "N", "O", "P", "Q", "R", "S", "T", "U", "V", "W", "X", "Y", "Z"}

Lower == {"a", "b", "c", "d", "e", "f", "g", "h", "i", "j", "k", "l", "m",
          "n", "o", "p", "q", "r", "s", "t", "u", "v", "w", "x", "y", "z"}

Digit == {"0", "1", "2", "3", "4", "5", "6", "7", "8", "9"}

(***************************************************************************)
(* constants.py                                                            *)
(***************************************************************************)
WARNING_CODE_MAP ==
    [input_json_fallback |-> "INP-FMT-001",
     missing_pages_and_text |-> "INP-MISS-002",
     noise_lines_removed |-> "PRE-CHK-001",
     label_empty_value |-> "PRS-MISS-001",
     gross_inferred_from_time_weight |-> "PRS-MAP-001",
     tare_inferred_from_time_weight |-> "PRS-MAP-002",
     net_inferred_from_gross_tare |-> "VAL-CHK-002",
     net_mismatch |-> "VAL-CHK-001",
     time_order_reversed |-> "VAL-CHK-003",
     negative_weight |-> "VAL-CHK-004",
     weight_exceeds_limit |-> "VAL-CHK-005"]

NET_WEIGHT_TOLERANCE_KG == 1

MAX_WEIGHT_KG == 100000

MIN_WEIGHT_KG == 0

\* ConfidenceWeights, in hundredths
LABEL_INFERENCE == 5

FIELD_MISSING == 5

LOGIC_MISMATCH == 10

NET_CALC_INFERENCE == 3

(***************************************************************************)
(* validator.py: warnings                                                  *)
(***************************************************************************)
NoContext == <<>>

\* dict(context) with context.setdefault(key, value)
SetDefault(context, key, value) ==
    [k \in (DOMAIN context) \cup {key} |->
        IF k \in DOMAIN context THEN context[k] ELSE value]

\* tuple(sorted(context.items())) is equal for two dicts exactly when the dicts
\* are: the key is the pair itself, the context None (here <<>>) when empty.
_warning_key(warning) == <<warning.code, warning.context>>

\* the severity half of _default_warning_info
_default_warning_info(code, context) ==
    CASE code = "noise_lines_removed" -> "INFO"
      [] code = "input_json_fallback" -> "WARN"
      [] code = "missing_pages_and_text" -> "ERROR"
      [] code = "label_empty_value" -> "WARN"
      [] code = "gross_inferred_from_time_weight" -> "WARN"
      [] code = "tare_inferred_from_time_weight" -> "WARN"
      [] code = "net_inferred_from_gross_tare" -> "WARN"
      [] code = "net_mismatch" -> "ERROR"
      [] code = "time_order_reversed" -> "WARN"
      [] code = "negative_weight" -> "ERROR"
      [] code = "weight_exceeds_limit" -> "WARN"
      [] OTHER -> "WARN"

\* re.match(r"^[A-Z]{3}-[A-Z]{3}-\d{3}$", code)
MatchesStandardForm(code) ==
    /\ Len(code) = 11
    /\ \A i \in {1, 2, 3, 5, 6, 7} : Ch(code, i) \in Upper
    /\ Ch(code, 4) = "-"
    /\ Ch(code, 8) = "-"
    /\ \A i \in {9, 10, 11} : Ch(code, i) \in Digit

\* a faulty variant: the table lookup is left out
StandardizeWithoutTable(code) == code

_standardize_warning_code(code) ==
    IF MatchesStandardForm(code) THEN code
    ELSE IF code \in DOMAIN WARNING_CODE_MAP THEN WARNING_CODE_MAP[code]
    ELSE code

NewWarning(code, context0, severity0) ==
    LET severity == IF severity0 = None
                    THEN _default_warning_info(code, context0)
                    ELSE Val(severity0)
        standardized == _standardize_warning_code(code)
        context == IF standardized # code
                   THEN SetDefault(context0, "legacy_code", code)
                   ELSE context0
    IN  [code |-> standardized, severity |-> severity, context |-> context]

\* a faulty variant: the new warning is appended without the key comparison
add_warning_no_dedup(ws, code, context0, severity0) ==
    Append(ws, NewWarning(code, context0, severity0))

\* the list after add_warning(ws, code, context0, severity0)
add_warning(ws, code, context0, severity0) ==
    LET warning == NewWarning(code, context0, severity0)
        candidate_key == _warning_key(warning)
    IN  IF \A i \in 1..Len(ws) : _warning_key(ws[i]) # candidate_key
        THEN Append(ws, warning)
        ELSE ws

has_warning(ws, code) ==
    LET standardized == _standardize_warning_code(code)
    IN  \E i \in 1..Len(ws) :
            \/ ws[i].code = standardized
            \/ /\ "legacy_code" \in DOMAIN ws[i].context
               /\ ws[i].context.legacy_code = code

(***************************************************************************)
(* schema.py: ParsedRecord()                                               *)
(***************************************************************************)
ParsedRecord ==
    [doc_type |-> <<"u", "n", "k", "n", "o", "w", "n">>,
     weigh_date |-> None,
     weigh_time_in |-> None,
     weigh_time_out |-> None,
     serial_no |-> None,
     vehicle_no |-> None,
     partner_name |-> None,
     item_name |-> None,
     direction |-> None,
     gross_weight_kg |-> None,
     tare_weight_kg |-> None,
     net_weight_kg |-> None,
     deduction_weight_kg |-> None,
     issuer |-> None,
     timestamp |-> None,
     gps |-> None,
     raw_text |-> <<>>,
     parse_confidence |-> 0,
     warnings |-> <<>>]

\* Python truthiness of an Optional[float]: neither None nor 0.0
TruthyNum(o) == o # None /\ Val(o) # 0

\* Python truthiness of an Optional[str]: neither None nor ""
TruthyStr(o) == o # None /\ Val(o) # <<>>

(***************************************************************************)
(* validator.py: validation and confidence                                 *)
(***************************************************************************)
\* ord() of the characters a formatted time is made of
CharCode(c) ==
    CASE c = "0" -> 48 [] c = "1" -> 49 [] c = "2" -> 50 [] c = "3" -> 51
      [] c = "4" -> 52 [] c = "5" -> 53 [] c = "6" -> 54 [] c = "7" -> 55
      [] c = "8" -> 56 [] c = "9" -> 57 [] c = ":" -> 58

\* a > b for Python strings: the first differing character decides, a proper
\* prefix is the smaller
RECURSIVE StrGreaterFrom(_, _, _)
StrGreaterFrom(a, b, i) ==
    IF i > Len(a) THEN FALSE
    ELSE IF i > Len(b) THEN TRUE
    ELSE IF a[i] = b[i] THEN StrGreaterFrom(a, b, i + 1)
    ELSE CharCode(a[i]) > CharCode(b[i])

StrGreater(a, b) == StrGreaterFrom(a, b, 1)

weight_fields == <<"gross_weight_kg", "tare_weight_kg", "net_weight_kg",
                   "deduction_weight_kg">>

\* a faulty variant: the limit itself is reported as exceeding it
ValidateOneWeightAtLimit(ws, field_name, value) ==
    IF value = None THEN ws
    ELSE LET context == [field |-> field_name, value |-> Val(value)]
             w1 == IF Val(value) < MIN_WEIGHT_KG
                   THEN add_warning(ws, "negative_weight", context, Some("ERROR"))
                   ELSE ws
         IN  IF Val(value) >= MAX_WEIGHT_KG
             THEN add_warning(w1, "weight_exceeds_limit", context, Some("WARN"))
             ELSE w1

\* one turn of the loop of validate_weights
ValidateOneWeight(ws, field_name, value) ==
    IF value = None THEN ws
    ELSE LET context == [field |-> field_name, value |-> Val(value)]
             w1 == IF Val(value) < MIN_WEIGHT_KG
                   THEN add_warning(ws, "negative_weight", context, Some("ERROR"))
                   ELSE ws
         IN  IF Val(value) > MAX_WEIGHT_KG
             THEN add_warning(w1, "weight_exceeds_limit", context, Some("WARN"))
             ELSE w1

RECURSIVE ValidateWeightsFrom(_, _, _)
ValidateWeightsFrom(rec, ws, i) ==
    IF i > Len(weight_fields) THEN ws
    ELSE ValidateWeightsFrom(
             rec, ValidateOneWeight(ws, weight_fields[i], rec[weight_fields[i]]),
             i + 1)

\* the warning list after validate_weights(record, warnings)
validate_weights(rec, ws) == ValidateWeightsFrom(rec, ws, 1)

\* the warning list after validate_time_order(record, warnings)
validate_time_order(rec, ws) ==
    IF /\ TruthyStr(rec.weigh_time_in)
       /\ TruthyStr(rec.weigh_time_out)
       /\ StrGreater(Val(rec.weigh_time_in), Val(rec.weigh_time_out))
    THEN add_warning(ws, "time_order_reversed",
                     [time_in |-> Val(rec.weigh_time_in),
                      time_out |-> Val(rec.weigh_time_out)], None)
    ELSE ws

\* the condition of the net inference (validator.py:103)
NetInferable(rec) ==
    /\ rec.net_weight_kg = None
    /\ TruthyNum(rec.gross_weight_kg)
    /\ TruthyNum(rec.tare_weight_kg)

\* a faulty variant: >= in place of > in the tolerance comparison
NetMismatchAtTolerance(rec) ==
    /\ rec.net_weight_kg # None
    /\ rec.gross_weight_kg # None
    /\ rec.tare_weight_kg # None
    /\ Abs(Val(rec.gross_weight_kg) - Val(rec.tare_weight_kg)
           - Val(rec.net_weight_kg)) >= NET_WEIGHT_TOLERANCE_KG

\* a faulty variant: the tare is added to the gross weight
NetMismatchSum(rec) ==
    /\ rec.net_weight_kg # None
    /\ rec.gross_weight_kg # None
    /\ rec.tare_weight_kg # None
    /\ Abs(Val(rec.gross_weight_kg) + Val(rec.tare_weight_kg)
           - Val(rec.net_weight_kg)) > NET_WEIGHT_TOLERANCE_KG

\* the condition of the net_mismatch warning (validator.py:107-115)
NetMismatch(rec) ==
    /\ rec.net_weight_kg # None
    /\ rec.gross_weight_kg # None
    /\ rec.tare_weight_kg # None
    /\ Abs(Val(rec.gross_weight_kg) - Val(rec.tare_weight_kg)
           - Val(rec.net_weight_kg)) > NET_WEIGHT_TOLERANCE_KG

\* a faulty variant: the test of the three fields is inverted
ConfidenceFieldsInverted(rec, ws) ==
    100 - (IF has_warning(ws, "gross_inferred_from_time_weight")
           THEN LABEL_INFERENCE ELSE 0)
        - (IF has_warning(ws, "tare_inferred_from_time_weight")
           THEN LABEL_INFERENCE ELSE 0)
        - (IF has_warning(ws, "net_inferred_from_gross_tare")
           THEN NET_CALC_INFERENCE ELSE 0)
        - (IF has_warning(ws, "net_mismatch") THEN LOGIC_MISMATCH ELSE 0)
        - (IF rec.partner_name # None THEN FIELD_MISSING ELSE 0)
        - (IF rec.item_name # None THEN FIELD_MISSING ELSE 0)
        - (IF rec.timestamp # None THEN FIELD_MISSING ELSE 0)

\* a faulty variant: the net inference costs as much as a label inference
ConfidenceNetAsLabel(rec, ws) ==
    100 - (IF has_warning(ws, "gross_inferred_from_time_weight")
           THEN LABEL_INFERENCE ELSE 0)
        - (IF has_warning(ws, "tare_inferred_from_time_weight")
           THEN LABEL_INFERENCE ELSE 0)
        - (IF has_warning(ws, "net_inferred_from_gross_tare")
           THEN LABEL_INFERENCE ELSE 0)
        - (IF has_warning(ws, "net_mismatch") THEN LOGIC_MISMATCH ELSE 0)
        - (IF rec.partner_name = None THEN FIELD_MISSING ELSE 0)
        - (IF rec.item_name = None THEN FIELD_MISSING ELSE 0)
        - (IF rec.timestamp = None THEN FIELD_MISSING ELSE 0)

\* the score before the clamp (validator.py:120-137), in hundredths
Confidence(rec, ws) ==
    100 - (IF has_warning(ws, "gross_inferred_from_time_weight")
           THEN LABEL_INFERENCE ELSE 0)
        - (IF has_warning(ws, "tare_inferred_from_time_weight")
           THEN LABEL_INFERENCE ELSE 0)
        - (IF has_warning(ws, "net_inferred_from_gross_tare")
           THEN NET_CALC_INFERENCE ELSE 0)
        - (IF has_warning(ws, "net_mismatch") THEN LOGIC_MISMATCH ELSE 0)
        - (IF rec.partner_name = None THEN FIELD_MISSING ELSE 0)
        - (IF rec.item_name = None THEN FIELD_MISSING ELSE 0)
        - (IF rec.timestamp = None THEN FIELD_MISSING ELSE 0)

\* a float literal of the score, given in hundredths, as the IEEE 754 double
\* nearest to it: <<hi, lo>> stands for (hi * 2^28 + lo) * 2^-57, lo < 2^28
\* (1.0 = 0x1p+0, 0.05 = 0x1.999999999999ap-5, 0.03 = 0x1.eb851eb851eb8p-6,
\* 0.1 = 0x1.999999999999ap-4)
Float(hundredths) ==
    CASE hundredths = 100 -> <<536870912, 0>>
      [] hundredths = 5 -> <<26843545, 161061274>>
      [] hundredths = 3 -> <<16106127, 96636764>>
      [] hundredths = 10 -> <<53687091, 53687092>>

\* x - c in double arithmetic, for a difference in [0.5, 1): the exact
\* difference, a multiple of 2^-57, is rounded to the nearest multiple of
\* 2^-53, a tie to the even one
FloatSub(x, c) ==
    LET borrow == IF x[2] < c[2] THEN 1 ELSE 0
        lo == x[2] - c[2] + borrow * 268435456
        hi == x[1] - c[1] - borrow
        rest == lo % 16
        up == rest > 8 \/ (rest = 8 /\ (lo \div 16) % 2 = 1)
        rounded == lo - rest + (IF up THEN 16 ELSE 0)
    IN  IF rounded = 268435456 THEN <<hi + 1, 0>> ELSE <<hi, rounded>>

\* the score before the clamp (validator.py:120-137) as the double the
\* successive `confidence -= ...` leave
ConfidenceFloat(rec, ws) ==
    LET Less(on, hundredths, x) == IF on THEN FloatSub(x, Float(hundredths)) ELSE x
    IN  Less(rec.timestamp = None, FIELD_MISSING,
        Less(rec.item_name = None, FIELD_MISSING,
        Less(rec.partner_name = None, FIELD_MISSING,
        Less(has_warning(ws, "net_mismatch"), LOGIC_MISMATCH,
        Less(has_warning(ws, "net_inferred_from_gross_tare"), NET_CALC_INFERENCE,
        Less(has_warning(ws, "tare_inferred_from_time_weight"), LABEL_INFERENCE,
        Less(has_warning(ws, "gross_inferred_from_time_weight"), LABEL_INFERENCE,
             Float(100))))))))

\* the record returned by finalize_record(record, warnings); its field
\* warnings is the final warning list
finalize_record(rec, ws) ==
    LET w1 == validate_weights(rec, ws)
        w2 == validate_time_order(rec, w1)
        infer == NetInferable(rec)
        r3 == IF infer
              THEN [rec EXCEPT !.net_weight_kg =
                       Some(Val(rec.gross_weight_kg) - Val(rec.tare_weight_kg))]
              ELSE rec
        w3 == IF infer
              THEN add_warning(w2, "net_inferred_from_gross_tare", NoContext, None)
              ELSE w2
        w4 == IF NetMismatch(r3)
              THEN add_warning(w3, "net_mismatch", NoContext, None)
              ELSE w3
    IN  [r3 EXCEPT !.warnings = w4,
                   !.parse_confidence = Max(0, Min(100, Confidence(r3, w4)))]

(***************************************************************************)
(* Python str.  A text is the sequence of its characters, each character a *)
(* TLA+ string: an ASCII character stands for itself and a Hangul syllable *)
(* is named by its romanization ("chong" "jung" "ryang" is the gross       *)
(* weight label).  Text("[chong][jung][ryang]: 1,000 kg") is such a text   *)
(* written out: a name in brackets is one character.  The warning codes    *)
(* and field names, which are ASCII, stay TLA+ strings.                    *)
(***************************************************************************)
RECURSIVE Text(_)
Text(s) ==
    IF s = "" THEN <<>>
    ELSE IF Ch(s, 1) = "["
    THEN LET close == CHOOSE i \in 2..Len(s) :
                         Ch(s, i) = "]" /\ \A j \in 2..(i - 1) : Ch(s, j) # "]"
         IN  <<SubSeq(s, 2, close - 1)>> \o Text(SubSeq(s, close + 1, Len(s)))
    ELSE <<Ch(s, 1)>> \o Text(SubSeq(s, 2, Len(s)))

\* the white space of \s and of str.strip() that the texts of this model use
WS == {" ", "\t", "\n", "\r"}

MinOf(S) == CHOOSE m \in S : \A n \in S : m <= n

\* s[n:], n counted from 0
From(s, n) == SubSeq(s, n + 1, Len(s))

\* sub occurs in s at position p (from 1)
StartsWithAt(s, sub, p) ==
    /\ p >= 1
    /\ p + Len(sub) - 1 <= Len(s)
    /\ SubSeq(s, p, p + Len(sub) - 1) = sub

\* the first position >= p at which sub occurs in s, 0 if there is none
FindFrom(s, sub, p) ==
    LET hits == {q \in p..(Len(s) - Len(sub) + 1) : StartsWithAt(s, sub, q)}
    IN  IF hits = {} THEN 0 ELSE MinOf(hits)

\* sub in s
Contains(s, sub) == FindFrom(s, sub, 1) # 0

\* s.replace(sub, "")
RECURSIVE Remove(_, _)
Remove(s, sub) ==
    LET p == FindFrom(s, sub, 1)
    IN  IF p = 0 THEN s
        ELSE SubSeq(s, 1, p - 1) \o Remove(From(s, p - 1 + Len(sub)), sub)

\* s.lstrip(cs)
RECURSIVE LStrip(_, _)
LStrip(s, cs) ==
    IF s # <<>> /\ s[1] \in cs THEN LStrip(Tail(s), cs) ELSE s

\* s.rstrip(cs)
RECURSIVE RStrip(_, _)
RStrip(s, cs) ==
    IF s # <<>> /\ s[Len(s)] \in cs
    THEN RStrip(SubSeq(s, 1, Len(s) - 1), cs) ELSE s

\* s.strip()
Strip(s) == RStrip(LStrip(s, WS), WS)

\* the characters of s that are in cs, in order
Keep(s, cs) == SelectSeq(s, LAMBDA c : c \in cs)

\* the characters of s that are not in cs, in order
Drop(s, cs) == SelectSeq(s, LAMBDA c : c \notin cs)

\* "\n".join(strs)
RECURSIVE JoinLines(_)
JoinLines(strs) ==
    IF strs = <<>> THEN <<>>
    ELSE IF Len(strs) = 1 THEN strs[1]
    ELSE strs[1] \o <<"\n">> \o JoinLines(Tail(strs))

(***************************************************************************)
(* normalizer.py                                                           *)
(***************************************************************************)
\* the syllables of the range U+AC00..U+D7A3 that the texts of this model use
Hangul == {"ban", "beon", "bun", "cha", "cheo", "chong", "chul", "da", "do",
           "eops", "eul", "eum", "eun", "ga", "gam", "geo", "geu",
           "gi", "go", "gong", "gu", "gug", "gwi", "gye",
           "gyeong", "ha", "ho", "hoe", "hoet", "hwak", "il",
           "in", "ip", "ja", "jae", "je", "jeon", "jeung", "jja",
           "ju", "jung", "myeong", "nal", "pan", "peol", "peu",
           "pum", "pyo", "rae", "rang", "ryang", "ryeo", "ryeon",
           "sa", "sang", "seo", "seong", "si", "sik", "sil",
           "sin", "su", "yeot"}

\* [0-9A-Za-z<Hangul>]
Alnum == Digit \cup Upper \cup Lower \cup Hangul

\* re.sub(r"\s+", " ", text)
RECURSIVE CollapseSpaces(_)
CollapseSpaces(s) ==
    IF s = <<>> THEN <<>>
    ELSE IF s[1] \in WS THEN <<" ">> \o CollapseSpaces(LStrip(s, WS))
    ELSE <<s[1]>> \o CollapseSpaces(Tail(s))

normalize_spaces(text) == Strip(CollapseSpaces(text))

compact_text(text) == Keep(text, Alnum)

(***************************************************************************)
(* constants.py: the vocabulary tables                                     *)
(***************************************************************************)
LABELS ==
    [date |-> <<Text("[gye][ryang][il][ja]"), Text("[il][ja]"), Text("[il][si]"),
                Text("[nal][jja]"), Text("[gye][ryang] [il][ja]")>>,
     serial |-> <<Text("[il][ryeon][beon][ho]"), Text("[gye][ryang][hoet][su]"),
                  Text("[jeon][pyo][beon][ho]"), Text("ID-NO"), Text("IDNO"),
                  Text("ID NO")>>,
     vehicle |-> <<Text("[cha][ryang][beon][ho]"), Text("[cha][beon][ho]"),
                   Text("[cha][ryang]No"), Text("[cha][ryang]NO"),
                   Text("[cha][ryang] No"), Text("[cha][ryang] NO")>>,
     partner |-> <<Text("[geo][rae][cheo]"), Text("[sang][ho]"),
                   Text("[su][sin][cheo]"), Text("[hoe][sa][myeong]"),
                   Text("[hoe] [sa] [myeong]")>>,
     item |-> <<Text("[pum][myeong]"), Text("[je][pum][myeong]"),
                Text("[pum] [myeong]"), Text("[je] [pum] [myeong]")>>,
     direction |-> <<Text("[gu][bun]"), Text("[gu] [bun]")>>,
     gross |-> <<Text("[chong][jung][ryang]"), Text("[chong] [jung][ryang]")>>,
     tare |-> <<Text("[gong][cha][jung][ryang]"), Text("[cha][jung][ryang]"),
                Text("[gong] [cha] [jung] [ryang]"), Text("[cha] [jung] [ryang]")>>,
     net |-> <<Text("[sil][jung][ryang]"), Text("[sil] [jung] [ryang]")>>,
     deduction |-> <<Text("[gam][ryang]"), Text("[gam] [ryang]")>>]

\* LABELS.values(), in the order of the dict
LabelFamilies == <<"date", "serial", "vehicle", "partner", "item", "direction",
                   "gross", "tare", "net", "deduction">>

\* DOC_TYPES.items(), in the order of the dict
DOC_TYPES ==
    <<<<Text("[gye][ryang][jeung][myeong][seo]"),
        <<Text("[gye][ryang][jeung][myeong][seo]"),
          Text("[gye][ryang] [jeung][myeong][seo]")>>>>,
      <<Text("[gye][ryang][jeung][myeong][pyo]"),
        <<Text("[gye][ryang][jeung][myeong][pyo]"),
          Text("[gye][ryang] [jeung][myeong] [pyo]"),
          Text("[gye][ryang] [jeung][myeong][pyo]")>>>>,
      <<Text("[gye][ryang][pyo]"),
        <<Text("[gye][ryang][pyo]"), Text("[gye] [ryang] [pyo]"),
          Text("[gye][geu][pyo]")>>>>,
      <<Text("[gye][ryang][hwak][in][seo]"),
        <<Text("[gye][ryang][hwak][in][seo]"),
          Text("[gye][ryang] [hwak][in][seo]"),
          Text("[gye] [ryang] [hwak] [in] [seo]")>>>>>>

DIRECTION_IN == Text("[ip][go]")

DIRECTION_OUT == Text("[chul][go]")

\* DIRECTION_KEYWORDS.items(), in the order of the dict
DIRECTION_KEYWORDS ==
    <<<<DIRECTION_IN, <<Text("[ip][go]"), Text("[ban][ip]")>>>>,
      <<DIRECTION_OUT, <<Text("[chul][go]"), Text("[ban][chul]")>>>>>>

\* DIRECTION_COMPACT_MAP.items()
DIRECTION_COMPACT_MAP == <<<<Text("[chul]"), DIRECTION_OUT>>>>

SALUTATION_KEYWORDS == <<Text("[gwi][ha]")>>

\* DOC_TYPE_PREFIX_MAP.items()
DOC_TYPE_PREFIX_MAP == <<<<Text("[gye][geu][pyo]"), Text("[gye][ryang][pyo]")>>>>

ISSUER_CORP_MARKERS == <<Text("([ju])")>>

ISSUER_EXCLUDE_CONTAINS == <<Text("[gyeong][gi][do]")>>

ISSUER_SKIP_CONTAINS == <<Text("[gye][ryang][ha][yeot][eum][eul]"),
                          Text("[jeung][myeong]")>>

\* LABEL_FUZZY_THRESHOLD and SHORT_LABEL_THRESHOLD, in hundredths
LABEL_FUZZY_THRESHOLD == 85

SHORT_LABEL_THRESHOLD == 66

SHORT_LABEL_LENGTH == 3

(***************************************************************************)
(* Python re: a pattern that is a sequence of character classes, each with *)
(* a greedy repetition {lo,hi}, matched with backtracking.  Positions are  *)
(* counted from 0 as in Python; a match is the sequence of its boundaries  *)
(* <<p_0, ..., p_k>>, item i of the pattern spanning text[p_(i-1):p_i], and *)
(* <<>> is "no match".  \d is taken as [0-9] and \s as the white space WS. *)
(***************************************************************************)
\* hi < 0 stands for "no upper limit"
Rep(cs, lo, hi) == [cs |-> cs, lo |-> lo, hi |-> hi]

One(cs) == Rep(cs, 1, 1)

Opt(cs) == Rep(cs, 0, 1)

Star(cs) == Rep(cs, 0, -1)

Plus(cs) == Rep(cs, 1, -1)

\* the number of characters of cs at text[pos:], hi at most
RECURSIVE RunLen(_, _, _, _)
RunLen(text, pos, cs, hi) ==
    IF hi = 0 \/ pos >= Len(text) \/ text[pos + 1] \notin cs THEN 0
    ELSE 1 + RunLen(text, pos + 1, cs, hi - 1)

RECURSIVE MatchFrom(_, _, _, _)
RECURSIVE TryCount(_, _, _, _, _)
\* items i.. of the pattern matched at pos, the longest repetition first
MatchFrom(text, pos, atoms, i) ==
    IF i > Len(atoms) THEN <<pos>>
    ELSE TryCount(text, pos, atoms, i,
                  RunLen(text, pos, atoms[i].cs, atoms[i].hi))

TryCount(text, pos, atoms, i, n) ==
    IF n < atoms[i].lo THEN <<>>
    ELSE LET r == MatchFrom(text, pos + n, atoms, i + 1)
         IN  IF r # <<>> THEN <<pos>> \o r
             ELSE TryCount(text, pos, atoms, i, n - 1)

\* pattern.search(text, pos): the leftmost match
RECURSIVE Search(_, _, _)
Search(text, atoms, pos) ==
    IF pos > Len(text) THEN <<>>
    ELSE LET OrLater(r) == IF r # <<>> THEN r ELSE Search(text, atoms, pos + 1)
         IN  OrLater(MatchFrom(text, pos, atoms, 1))

\* text[a:b]
Slice(text, a, b) == SubSeq(text, a + 1, b)

\* what item i of the pattern matched
Group(text, m, i) == Slice(text, m[i], m[i + 1])

MatchStart(m) == m[1]

MatchEnd(m) == m[Len(m)]

\* the leftmost match of a pattern that ends in an optional group,
\* atoms(?:tail)?: the optional group is tried where atoms first matched
SearchOpt(text, atoms, tail, pos) ==
    LET WithTail(m) ==
            IF m = <<>> THEN <<>>
            ELSE LET Extend(t) == IF t # <<>> THEN m \o Tail(t) ELSE m
                 IN  Extend(MatchFrom(text, MatchEnd(m), tail, 1))
    IN  WithTail(Search(text, atoms, pos))

\* re.sub(atoms(?:tail)?, " ", text) for a pattern that matches no empty
\* string; tail = <<>> for a pattern without an optional group
RECURSIVE Sub(_, _, _)
Sub(text, atoms, tail) ==
    LET Replace(m) ==
            IF m = <<>> THEN text
            ELSE Slice(text, 0, MatchStart(m)) \o <<" ">>
                 \o Sub(From(text, MatchEnd(m)), atoms, tail)
    IN  Replace(SearchOpt(text, atoms, tail, 0))

DigitVal(c) ==
    CASE c = "0" -> 0 [] c = "1" -> 1 [] c = "2" -> 2 [] c = "3" -> 3
      [] c = "4" -> 4 [] c = "5" -> 5 [] c = "6" -> 6 [] c = "7" -> 7
      [] c = "8" -> 8 [] c = "9" -> 9

\* int(digits), float(digits)
RECURSIVE ParseInt(_)
ParseInt(digits) ==
    IF digits = <<>> THEN 0
    ELSE 10 * ParseInt(SubSeq(digits, 1, Len(digits) - 1))
         + DigitVal(digits[Len(digits)])

DigitChar(d) == <<"0", "1", "2", "3", "4", "5", "6", "7", "8", "9">>[d + 1]

\* str(n) for n >= 0
RECURSIVE Str(_)
Str(n) == IF n < 10 THEN <<DigitChar(n)>>
          ELSE Str(n \div 10) \o <<DigitChar(n % 10)>>

\* f"{n:02d}" for n >= 0
Fmt02(n) == IF n < 10 THEN <<"0">> \o Str(n) ELSE Str(n)

(***************************************************************************)
(* normalizer.py: label search                                             *)
(***************************************************************************)
\* the pattern of build_label_regex(label): the characters of the label
\* without its spaces, \s* between them
RECURSIVE JoinWithSpaces(_)
JoinWithSpaces(chars) ==
    IF Len(chars) <= 1 THEN [i \in 1..Len(chars) |-> One({chars[i]})]
    ELSE <<One({chars[1]}), Star(WS)>> \o JoinWithSpaces(Tail(chars))

build_label_regex(label) == JoinWithSpaces(Remove(label, <<" ">>))

\* a span is None or <<(start, end)>>, positions from 0
SpanOf(m) == <<MatchStart(m), MatchEnd(m)>>

\* the loop of find_label_span from label i on
RECURSIVE FindLabelSpanFrom(_, _, _, _)
FindLabelSpanFrom(text, labels, i, best) ==
    IF i > Len(labels) THEN best
    ELSE LET Earlier(match) ==
                 IF match # <<>> /\ (best = None \/ MatchStart(match) < Val(best)[1])
                 THEN Some(SpanOf(match)) ELSE best
         IN  FindLabelSpanFrom(text, labels, i + 1,
                 Earlier(Search(text, build_label_regex(labels[i]), 0)))

find_label_span(text, labels) == FindLabelSpanFrom(text, labels, 1, None)

\* the index_map of _compact_with_index_map(text): the positions (from 0)
\* of the characters that compact_text keeps
RECURSIVE IndexMapFrom(_, _)
IndexMapFrom(text, i) ==
    IF i >= Len(text) THEN <<>>
    ELSE (IF text[i + 1] \in Alnum THEN <<i>> ELSE <<>>)
         \o IndexMapFrom(text, i + 1)

_compact_with_index_map(text) == <<compact_text(text), IndexMapFrom(text, 0)>>

\* the length of the common run of a[i:ahi] and b[j:bhi]
RECURSIVE CommonRun(_, _, _, _, _, _)
CommonRun(a, b, i, j, ahi, bhi) ==
    IF i >= ahi \/ j >= bhi \/ a[i + 1] # b[j + 1] THEN 0
    ELSE 1 + CommonRun(a, b, i + 1, j + 1, ahi, bhi)

\* difflib's find_longest_match(alo, ahi, blo, bhi) without junk: the
\* longest common block, the earliest in a and then in b among the longest
FindLongestMatch(a, b, alo, ahi, blo, bhi) ==
    LET blocks == {<<i, j, CommonRun(a, b, i, j, ahi, bhi)>> :
                       i \in alo..(ahi - 1), j \in blo..(bhi - 1)}
        best == CHOOSE k \in {blk[3] : blk \in blocks} :
                    \A blk \in blocks : blk[3] <= k
    IN  IF best = 0 THEN <<alo, blo, 0>>
        ELSE CHOOSE blk \in blocks :
                /\ blk[3] = best
                /\ \A other \in blocks :
                      other[3] = best =>
                         \/ blk[1] < other[1]
                         \/ blk[1] = other[1] /\ blk[2] <= other[2]

\* the sum of the sizes of difflib's get_matching_blocks()
RECURSIVE MatchedCount(_, _, _, _, _, _)
MatchedCount(a, b, alo, ahi, blo, bhi) ==
    IF alo >= ahi \/ blo >= bhi THEN 0
    ELSE LET Around(blk) ==
                 IF blk[3] = 0 THEN 0
                 ELSE blk[3]
                      + MatchedCount(a, b, alo, blk[1], blo, blk[2])
                      + MatchedCount(a, b, blk[1] + blk[3], ahi, blk[2] + blk[3], bhi)
         IN  Around(FindLongestMatch(a, b, alo, ahi, blo, bhi))

\* the matched count of the window at start, 0 for a window that is skipped
WindowScore(compacted_text, compact_label, start) ==
    LET window == Slice(compacted_text, start, start + Len(compact_label))
    IN  IF window[1] # compact_label[1] THEN 0
        ELSE MatchedCount(compact_label, window, 0, Len(compact_label),
                          0, Len(window))

\* the loop of _fuzzy_label_span: <<best matched count, best_start>>
RECURSIVE BestWindowFrom(_, _, _, _)
BestWindowFrom(compacted_text, compact_label, start, best) ==
    IF start > Len(compacted_text) - Len(compact_label) THEN best
    ELSE LET Better(score) ==
                 IF score > best[1] THEN <<score, Some(start)>> ELSE best
         IN  BestWindowFrom(compacted_text, compact_label, start + 1,
                 Better(WindowScore(compacted_text, compact_label, start)))

\* a faulty variant: the short-label threshold is not applied
FuzzyThresholdLongOnly(label_len) == LABEL_FUZZY_THRESHOLD

FuzzyThreshold(label_len) ==
    IF label_len <= SHORT_LABEL_LENGTH THEN SHORT_LABEL_THRESHOLD
    ELSE LABEL_FUZZY_THRESHOLD

_fuzzy_label_span(text, label) ==
    LET Span(compacted_text, index_map, compact_label, label_len) ==
            IF label_len = 0 \/ Len(compacted_text) < label_len THEN None
            ELSE LET Pick(best) ==
                         \* both texts have label_len characters:
                         \* ratio = matched/label_len
                         IF best[2] = None
                            \/ 100 * best[1] < FuzzyThreshold(label_len) * label_len
                         THEN None
                         ELSE Some(<<index_map[Val(best[2]) + 1],
                                     index_map[Val(best[2]) + label_len] + 1>>)
                 IN  Pick(BestWindowFrom(compacted_text, compact_label, 0,
                                         <<0, None>>))
    IN  Span(_compact_with_index_map(text)[1], _compact_with_index_map(text)[2],
             compact_text(label), Len(compact_text(label)))

\* the loop of find_label_span_fuzzy from label i on
RECURSIVE FindLabelSpanFuzzyFrom(_, _, _, _)
FindLabelSpanFuzzyFrom(text, labels, i, best) ==
    IF i > Len(labels) THEN best
    ELSE LET Earlier(fuzzy_span) ==
                 IF fuzzy_span # None
                    /\ (best = None \/ Val(fuzzy_span)[1] < Val(best)[1])
                 THEN fuzzy_span ELSE best
         IN  FindLabelSpanFuzzyFrom(text, labels, i + 1,
                 Earlier(_fuzzy_label_span(text, labels[i])))

find_label_span_fuzzy(text, labels) ==
    FindLabelSpanFuzzyFrom(text, labels, 1, None)

\* text.lstrip(" :<fullwidth colon>|-")
strip_value_prefix(text) == LStrip(text, {" ", ":", "fwcolon", "|", "-"})

\* "".join(re.findall(r"[0-9A-Za-z<Hangul>]+", text)), None if nothing is found
clean_vehicle_no(text) ==
    IF Keep(text, Alnum) = <<>> THEN None ELSE Some(Keep(text, Alnum))

EndsWith(s, suffix) ==
    Len(s) >= Len(suffix) /\ SubSeq(s, Len(s) - Len(suffix) + 1, Len(s)) = suffix

clean_item_name(text) ==
    LET compact == Remove(text, <<" ">>)
        cut == IF EndsWith(compact, Text("[gu][bun]"))
               THEN SubSeq(compact, 1, Len(compact) - Len(Text("[gu][bun]")))
               ELSE compact
    IN  IF cut = <<>> THEN None ELSE Some(cut)

(***************************************************************************)
(* Values decoded from JSON, with the Python operations used on them       *)
(***************************************************************************)
JNull == [t |-> "null"]

JBool(b) == [t |-> "bool", b |-> b]

JNum(n) == [t |-> "num", n |-> n]

JStr(s) == [t |-> "str", s |-> s]

JList(items) == [t |-> "list", items |-> items]

JObj(fields) == [t |-> "obj", fields |-> fields]

OK(v) == [ok |-> TRUE, val |-> v]

Raise(e) == [ok |-> FALSE, exc |-> e]

\* bool(v)
Truthy(v) ==
    CASE v.t = "null" -> FALSE
      [] v.t = "bool" -> v.b
      [] v.t = "num" -> v.n # 0
      [] v.t = "str" -> v.s # <<>>
      [] v.t = "list" -> v.items # <<>>
      [] v.t = "obj" -> DOMAIN v.fields # {}

\* v.get(key, default) of a dict v
DictGet(v, key, default) ==
    IF key \in DOMAIN v.fields THEN v.fields[key] ELSE default

RECURSIVE SetToSeq(_)
SetToSeq(S) ==
    IF S = {} THEN <<>>
    ELSE LET x == CHOOSE y \in S : TRUE IN <<x>> \o SetToSeq(S \ {x})

\* iter(v) exists: a list, a str (its characters) or a dict (its keys)
Iterable(v) == v.t \in {"list", "str", "obj"}

\* the values `for x in v` goes through
Iter(v) ==
    CASE v.t = "list" -> v.items
      [] v.t = "str" -> [i \in 1..Len(v.s) |-> JStr(<<v.s[i]>>)]
      [] v.t = "obj" -> [i \in 1..Cardinality(DOMAIN v.fields) |->
                            JStr(SetToSeq(DOMAIN v.fields)[i])]

(***************************************************************************)
(* preprocessor.py                                                         *)
(***************************************************************************)
NOISE_COMPACT_TOKENS == {Text(""), Text("N"), Text("[eops][da]")}

\* what a raised exception is recorded as
Exception(type, message) == [type |-> type, message |-> message]

\* what f.read() returns for a file opened with open(path, "r"): the text
\* mode's universal newlines turn each CR LF and each lone CR into LF
RECURSIVE UniversalNewlines(_)
UniversalNewlines(content) ==
    IF content = <<>> THEN <<>>
    ELSE IF Head(content) = "\r"
    THEN IF Len(content) >= 2 /\ content[2] = "\n"
         THEN <<"\n">> \o UniversalNewlines(SubSeq(content, 3, Len(content)))
         ELSE <<"\n">> \o UniversalNewlines(Tail(content))
    ELSE <<Head(content)>> \o UniversalNewlines(Tail(content))

\* a faulty variant: no fallback, text that is not JSON is a load failure
load_ocr_json_strict(src) ==
    CASE src.kind = "missing" ->
            Raise(Exception("ValidationError", "not found"))
      [] src.kind \in {"undecodable", "text"} ->
            Raise(Exception("ValidationError", "load failed"))
      [] src.kind = "json" -> OK(<<src.value, <<>>>>)

\* the result of load_ocr_json(path): (payload, warnings) or the exception.
\* A source is what open() and json.load() make of the path: missing,
\* undecodable as UTF-8, text that is not JSON, or a JSON value.
load_ocr_json(src) ==
    CASE src.kind = "missing" ->
            Raise(Exception("ValidationError", "not found"))
      [] src.kind = "undecodable" ->
            Raise(Exception("ValidationError", "load failed"))
      [] src.kind = "text" ->
            OK(<<JObj([text |-> JStr(UniversalNewlines(src.content))]),
                 add_warning(<<>>, "input_json_fallback",
                             [error |-> "JSONDecodeError"], None)>>)
      [] src.kind = "json" -> OK(<<src.value, <<>>>>)

\* the inner loop of extract_lines (preprocessor.py:59-62) over one page's
\* lines; acc is the list `lines` so far
RECURSIVE LinesOfItems(_, _)
LinesOfItems(items, acc) ==
    IF items = <<>> THEN OK(acc)
    ELSE LET line == Head(items)
         IN  IF line.t # "obj" THEN Raise(Exception("AttributeError", "get"))
             ELSE LET text == DictGet(line, "text", JNull)
                  IN  LinesOfItems(Tail(items),
                                   IF Truthy(text) THEN Append(acc, text) ELSE acc)

\* the outer loop of extract_lines (preprocessor.py:58-62)
RECURSIVE LinesOfPages(_, _)
LinesOfPages(pages, acc) ==
    IF pages = <<>> THEN OK(acc)
    ELSE LET page == Head(pages)
         IN  IF page.t # "obj" THEN Raise(Exception("AttributeError", "get"))
             ELSE LET got == DictGet(page, "lines", JList(<<>>))
                      ls == IF Truthy(got) THEN got ELSE JList(<<>>)
                  IN  IF ~Iterable(ls)
                      THEN Raise(Exception("TypeError", "not iterable"))
                      ELSE LET r == LinesOfItems(Iter(ls), acc)
                           IN  IF r.ok THEN LinesOfPages(Tail(pages), r.val)
                               ELSE r

\* [page.get("text") for page in pages if page.get("text")]; every page is a
\* dict once the loop over the pages has ended without an exception
RECURSIVE PageTexts(_)
PageTexts(pages) ==
    IF pages = <<>> THEN <<>>
    ELSE LET text == DictGet(Head(pages), "text", JNull)
         IN  (IF Truthy(text) THEN <<text>> ELSE <<>>) \o PageTexts(Tail(pages))

\* a faulty variant: the top-level text is not consulted when pages are given
ExtractLinesPagesOnly(pl) ==
    IF pl.t # "obj" THEN Raise(Exception("AttributeError", "get"))
    ELSE LET pages == DictGet(pl, "pages", JList(<<>>))
             top_text == DictGet(pl, "text", JNull)
         IN  IF ~Truthy(pages)
             THEN OK(IF Truthy(top_text) THEN <<top_text>> ELSE <<>>)
             ELSE IF ~Iterable(pages)
             THEN Raise(Exception("TypeError", "not iterable"))
             ELSE LET r == LinesOfPages(Iter(pages), <<>>)
                  IN  IF ~r.ok \/ r.val # <<>> THEN r
                      ELSE OK(PageTexts(Iter(pages)))

\* the result of extract_lines(payload): the list of texts or the exception
extract_lines(pl) ==
    IF pl.t # "obj" THEN Raise(Exception("AttributeError", "get"))
    ELSE LET pages == DictGet(pl, "pages", JList(<<>>))
             top_text == DictGet(pl, "text", JNull)
             top == OK(IF Truthy(top_text) THEN <<top_text>> ELSE <<>>)
         IN  IF ~Truthy(pages) THEN top
             ELSE IF ~Iterable(pages)
             THEN Raise(Exception("TypeError", "not iterable"))
             ELSE LET r == LinesOfPages(Iter(pages), <<>>)
                  IN  IF ~r.ok \/ r.val # <<>> THEN r
                      ELSE IF PageTexts(Iter(pages)) # <<>>
                      THEN OK(PageTexts(Iter(pages)))
                      ELSE top

\* a faulty variant: only blank lines are noise
is_noise_line_blank_only(text) == Strip(text) = <<>>

is_noise_line(text) ==
    \/ Strip(text) = <<>>
    \/ compact_text(text) \in NOISE_COMPACT_TOKENS

LineInfo(raw) ==
    [raw |-> raw,
     cleaned |-> normalize_spaces(raw),
     compact |-> compact_text(normalize_spaces(raw))]

build_line_infos(lines) == [i \in 1..Len(lines) |-> LineInfo(lines[i])]

\* the result of preprocess_payload(payload, initial_warnings): the
\* PreprocessResult or the exception
preprocess_payload(pl, initial_warnings) ==
    LET Result(lines, all_infos, kept, w1) ==
            LET noise_count == Len(all_infos) - Len(kept)
            IN  OK([raw_text |-> JoinLines(lines), line_infos |-> kept,
                    warnings |-> IF noise_count > 0
                                 THEN add_warning(w1, "noise_lines_removed",
                                                  [count |-> noise_count], None)
                                 ELSE w1])
        Filtered(lines, all_infos) ==
            Result(lines, all_infos,
                   SelectSeq(all_infos, LAMBDA info : ~is_noise_line(info.cleaned)),
                   IF lines = <<>>
                   THEN add_warning(initial_warnings, "missing_pages_and_text",
                                    NoContext, None)
                   ELSE initial_warnings)
        OfLines(lines) == Filtered(lines, build_line_infos(lines))
        Extracted(got) ==
            IF ~got.ok THEN got
            ELSE IF \E i \in 1..Len(got.val) : got.val[i].t # "str"
            THEN Raise(Exception("TypeError", "join"))
            ELSE OfLines([i \in 1..Len(got.val) |-> got.val[i].s])
    IN  Extracted(extract_lines(pl))

(***************************************************************************)
(* parser.py: the field extractors.  A weight is a whole number of kg, as  *)
(* the digits that extract_weight hands to float() have no fraction.       *)
(***************************************************************************)
\* \s*:\s*
Colon == <<Star(WS), One({":"}), Star(WS)>>

\* \s*-\s*
Dash == <<Star(WS), One({"-"}), Star(WS)>>

D2 == Rep(Digit, 2, 2)

D4 == Rep(Digit, 4, 4)

D12 == Rep(Digit, 1, 2)

\* (\d{4})[-./\s]*(\d{2})[-./\s]*(\d{2})
_DATE_PATTERN ==
    <<D4, Star({"-", ".", "/"} \cup WS), D2, Star({"-", ".", "/"} \cup WS), D2>>

\* (\d{1,2})\s*:\s*(\d{2}) and its optional group (?:\s*:\s*(\d{2}))?
_TIME_PATTERN == <<D12>> \o Colon \o <<D2>>

_TIME_PATTERN_SECONDS == Colon \o <<D2>>

\* \(?\s*(\d{1,2})\s*:\s*(\d{2})\s*\)?
_TIME_PAREN_PATTERN ==
    <<Opt({"("}), Star(WS), D12>> \o Colon \o <<D2, Star(WS), Opt({")"})>>

\* (\d{1,2})\s*<si>\s*(\d{1,2})\s*<bun>
_TIME_KOREAN_PATTERN ==
    <<D12, Star(WS), One({"si"}), Star(WS), D12, Star(WS), One({"bun"})>>

\* (\d[\d,\s]*)\s*kg, re.IGNORECASE
_WEIGHT_PATTERN ==
    <<One(Digit), Star(Digit \cup {","} \cup WS), Star(WS),
      One({"k", "K"}), One({"g", "G"})>>

\* (\d{4})\s*-\s*(\d{2})\s*-\s*(\d{2})\s+(\d{2})\s*:\s*(\d{2})\s*:\s*(\d{2})
_TIMESTAMP_PATTERN ==
    <<D4>> \o Dash \o <<D2>> \o Dash \o <<D2, Plus(WS), D2>>
    \o Colon \o <<D2>> \o Colon \o <<D2>>

\* the result of extract_date_serial(text): <<date_value, serial_value>>
extract_date_serial(text) ==
    LET date_match == Search(text, _DATE_PATTERN, 0)
    IN  IF date_match = <<>> THEN <<None, None>>
        ELSE LET date_value == Group(text, date_match, 1) \o <<"-">>
                               \o Group(text, date_match, 3) \o <<"-">>
                               \o Group(text, date_match, 5)
                 tail == From(text, MatchEnd(date_match))
                 \* [-\s:]*([0-9]{1,6})
                 serial_match == Search(tail, <<Star({"-", ":"} \cup WS),
                                                Rep(Digit, 1, 6)>>, 0)
             IN  <<Some(date_value),
                   IF serial_match = <<>> THEN None
                   ELSE Some(Group(tail, serial_match, 2))>>

\* f"{hour:02d}:{minute:02d}"
HourMinute(hour, minute) ==
    Fmt02(ParseInt(hour)) \o <<":">> \o Fmt02(ParseInt(minute))

extract_time(text) ==
    LET First(m1, m2, m3) ==
            IF m1 # <<>>
            THEN IF Len(m1) > Len(_TIME_PATTERN) + 1
                 THEN Some(HourMinute(Group(text, m1, 1), Group(text, m1, 5))
                           \o <<":">> \o Fmt02(ParseInt(Group(text, m1, 9))))
                 ELSE Some(HourMinute(Group(text, m1, 1), Group(text, m1, 5)))
            ELSE IF m2 # <<>>
            THEN Some(HourMinute(Group(text, m2, 3), Group(text, m2, 7)))
            ELSE IF m3 # <<>>
            THEN Some(HourMinute(Group(text, m3, 1), Group(text, m3, 5)))
            ELSE None
    IN  First(SearchOpt(text, _TIME_PATTERN, _TIME_PATTERN_SECONDS, 0),
              Search(text, _TIME_PAREN_PATTERN, 0),
              Search(text, _TIME_KOREAN_PATTERN, 0))

strip_time_tokens(text) ==
    LET t1 == Sub(text, <<One({"("}), Star(WS), D12>> \o Colon
                        \o <<D2, Star(WS), One({")"})>>, <<>>)
        t2 == Sub(t1, _TIME_PATTERN, _TIME_PATTERN_SECONDS)
    IN  Sub(t2, _TIME_KOREAN_PATTERN, <<>>)

extract_weight(text) ==
    LET In(sanitized) ==
            LET Number(match) ==
                    IF match = <<>> THEN None
                    ELSE Some(ParseInt(Drop(Slice(sanitized, match[1], match[3]),
                                            {","} \cup WS)))
            IN  Number(Search(sanitized, _WEIGHT_PATTERN, 0))
    IN  In(strip_time_tokens(text))

\* any(keyword in text for keyword in keywords)
AnyIn(keywords, text) == \E i \in 1..Len(keywords) : Contains(text, keywords[i])

\* the position (from 1) of the first entry of a table of pairs that
\* satisfies Test, 0 if there is none
FirstIndex(table, Test(_)) ==
    IF \E i \in 1..Len(table) : Test(table[i])
    THEN MinOf({i \in 1..Len(table) : Test(table[i])})
    ELSE 0

detect_direction_from_text(text) ==
    LET byKeyword == FirstIndex(DIRECTION_KEYWORDS,
                                LAMBDA entry : AnyIn(entry[2], text))
        byCompact == FirstIndex(DIRECTION_COMPACT_MAP,
                                LAMBDA entry : entry[1] = compact_text(text))
    IN  IF byKeyword # 0 THEN Some(DIRECTION_KEYWORDS[byKeyword][1])
        ELSE IF byCompact # 0 THEN Some(DIRECTION_COMPACT_MAP[byCompact][2])
        ELSE None

\* float() of sign, digits "." digits, as n / 10^e with no trailing zero
RECURSIVE Decimal(_, _, _)
Decimal(sign, whole, frac) ==
    IF frac # <<>> /\ frac[Len(frac)] = "0"
    THEN Decimal(sign, whole, SubSeq(frac, 1, Len(frac) - 1))
    ELSE [n |-> (IF sign = <<"-">> THEN -1 ELSE 1) * ParseInt(whole \o frac),
          e |-> Len(frac)]

\* -limit <= d <= limit
RECURSIVE Pow10(_)
Pow10(e) == IF e = 0 THEN 1 ELSE 10 * Pow10(e - 1)

Within(d, limit) == Abs(d.n) <= limit * Pow10(d.e)

\* ([-+]?\d+\.\d+)\s*,\s*([-+]?\d+\.\d+)
GpsPattern ==
    <<Opt({"-", "+"}), Plus(Digit), One({"."}), Plus(Digit),
      Star(WS), One({","}), Star(WS),
      Opt({"-", "+"}), Plus(Digit), One({"."}), Plus(Digit)>>

extract_gps(text) ==
    LET Point(match) ==
            IF match = <<>> THEN None
            ELSE LET InRange(lat, lng) ==
                         IF ~(Within(lat, 90) /\ Within(lng, 180)) THEN None
                         ELSE Some([lat |-> lat, lng |-> lng])
                 IN  InRange(Decimal(Group(text, match, 1), Group(text, match, 2),
                                     Group(text, match, 4)),
                             Decimal(Group(text, match, 8), Group(text, match, 9),
                                     Group(text, match, 11)))
    IN  Point(Search(text, GpsPattern, 0))

extract_timestamp(text) ==
    LET match == Search(text, _TIMESTAMP_PATTERN, 0)
    IN  IF match = <<>> THEN None
        ELSE Some(Group(text, match, 1) \o <<"-">> \o Group(text, match, 5)
                  \o <<"-">> \o Group(text, match, 9) \o <<" ">>
                  \o Group(text, match, 11) \o <<":">> \o Group(text, match, 15)
                  \o <<":">> \o Group(text, match, 19))

\* the first loop of detect_doc_type on one line: the position in DOC_TYPES
\* of the first type with a variant in the compact text, 0 if there is none
DocTypeIn(compact) ==
    FirstIndex(DOC_TYPES,
               LAMBDA entry : \E v \in 1..Len(entry[2]) :
                                 Contains(compact, compact_text(entry[2][v])))

\* the second loop of detect_doc_type on one line
DocPrefixIn(compact) ==
    FirstIndex(DOC_TYPE_PREFIX_MAP,
               LAMBDA entry : StartsWithAt(compact, entry[1], 1))

detect_doc_type(lines) ==
    LET byVariant == FirstIndex(lines, LAMBDA line : DocTypeIn(line.compact) # 0)
        byPrefix == FirstIndex(lines, LAMBDA line : DocPrefixIn(line.compact) # 0)
    IN  IF byVariant # 0 THEN DOC_TYPES[DocTypeIn(lines[byVariant].compact)][1]
        ELSE IF byPrefix # 0
        THEN DOC_TYPE_PREFIX_MAP[DocPrefixIn(lines[byPrefix].compact)][2]
        ELSE Text("unknown")

\* `x or None` of a str x
OrNone(text) == IF text = <<>> THEN None ELSE Some(text)

\* the result of split_item_direction(line): <<item_value, direction_value>>
split_item_direction(line) ==
    LET Between(item_span, direction_span) ==
            IF item_span = None \/ direction_span = None THEN <<None, None>>
            ELSE IF Val(item_span)[2] >= Val(direction_span)[1] THEN <<None, None>>
            ELSE <<OrNone(Strip(strip_value_prefix(
                       Slice(line.cleaned, Val(item_span)[2],
                             Val(direction_span)[1])))),
                   OrNone(Strip(strip_value_prefix(
                       From(line.cleaned, Val(direction_span)[2]))))>>
    IN  Between(find_label_span(line.cleaned, LABELS.item),
                find_label_span(line.cleaned, LABELS.direction))

is_label_line(line) ==
    \E k \in 1..Len(LabelFamilies) :
        find_label_span(line.cleaned, LABELS[LabelFamilies[k]]) # None

\* the first loop of find_issuer accepts the line
IssuerByMarker(line) ==
    /\ AnyIn(ISSUER_CORP_MARKERS, Remove(line.cleaned, <<" ">>))
    /\ ~AnyIn(ISSUER_EXCLUDE_CONTAINS, line.cleaned)

\* the second loop of find_issuer accepts the line
IssuerByPosition(line) ==
    /\ Strip(line.cleaned) # <<>>
    /\ extract_timestamp(line.cleaned) = None
    /\ extract_gps(line.cleaned) = None
    /\ ~AnyIn(ISSUER_SKIP_CONTAINS, line.cleaned)
    /\ ~is_label_line(line)
    /\ Len(line.cleaned) >= 2

\* the first loop of select_value_after_label from label i on:
\* <<best_span, best_label>>
RECURSIVE ExactLabelFrom(_, _, _, _)
ExactLabelFrom(text, labels, i, best) ==
    IF i > Len(labels) THEN best
    ELSE LET Earlier(match) ==
                 IF match # <<>>
                    /\ (best[1] = None \/ MatchStart(match) < Val(best[1])[1])
                 THEN <<Some(SpanOf(match)), Some(labels[i])>> ELSE best
         IN  ExactLabelFrom(text, labels, i + 1,
                 Earlier(Search(text, build_label_regex(labels[i]), 0)))

\* the second loop of select_value_after_label from label i on
RECURSIVE FuzzyLabelFrom(_, _, _, _)
FuzzyLabelFrom(text, labels, i, best) ==
    IF i > Len(labels) THEN best
    ELSE LET Earlier(span) ==
                 IF span # None
                    /\ (best[1] = None \/ Val(span)[1] < Val(best[1])[1])
                 THEN <<span, Some(labels[i])>> ELSE best
         IN  FuzzyLabelFrom(text, labels, i + 1,
                 Earlier(find_label_span_fuzzy(text, <<labels[i]>>)))

\* <<best_span, best_label>> after the two loops of select_value_after_label
SelectSpan(text, labels) ==
    LET OrFuzzy(exact) ==
            IF exact[1] # None THEN exact
            ELSE FuzzyLabelFrom(text, labels, 1, <<None, None>>)
    IN  OrFuzzy(ExactLabelFrom(text, labels, 1, <<None, None>>))

\* select_value_after_label(line, labels, warnings): the value returned and
\* the context of the label_empty_value warning, if one is added
select_value_after_label(line, labels) ==
    LET After(best) ==
            IF best[1] = None THEN [value |-> None, empty |-> None]
            ELSE LET Result(value) ==
                         IF value = <<>>
                         THEN [value |-> None,
                               empty |-> Some([label |->
                                             Remove(Val(best[2]), <<" ">>)])]
                         ELSE [value |-> Some(value), empty |-> None]
                 IN  Result(Strip(strip_value_prefix(
                                From(line.cleaned, Val(best[1])[2]))))
    IN  After(SelectSpan(line.cleaned, labels))

(***************************************************************************)
(* parser.py: parse_preprocessed.  The state of the loop over the lines is *)
(* st = [record, warnings, direction_source, candidate_time_weight].  What *)
(* a turn of the loop computes from the line alone is gathered in          *)
(* LineFacts(line), under the names the code gives it; the operators       *)
(* Step... are the stretches of the loop body, in the order of the code,   *)
(* each reading the facts f of the line and the state.                     *)
(***************************************************************************)
\* the loops of parser.py:268-270: every direction keyword is removed
RECURSIVE RemoveAll(_, _)
RemoveAll(text, keywords) ==
    IF keywords = <<>> THEN text
    ELSE RemoveAll(Remove(text, Head(keywords)), Tail(keywords))

AllDirectionKeywords ==
    DIRECTION_KEYWORDS[1][2] \o DIRECTION_KEYWORDS[2][2]

\* Python truthiness of an Optional[str] lets f(Val(o)) be computed only
\* for a value that is there
IfSet(o, F(_)) == IF TruthyStr(o) THEN F(Val(o)) ELSE None

LineFacts(line) ==
    LET Gather(salutation, select, vehicle_direction, split) ==
        [\* parser.py:240-242
         partner_value |->
             IF salutation = 0 THEN None
             ELSE Some(Strip(Remove(line.cleaned, SALUTATION_KEYWORDS[salutation]))),
         \* parser.py:249-250
         date_serial |->
             IF find_label_span(line.cleaned, LABELS.date) # None
             THEN extract_date_serial(line.cleaned) ELSE <<None, None>>,
         \* the nine calls of select_value_after_label
         select |-> select,
         \* parser.py:258-260, \d{1,8}
         serial_match |->
             IfSet(select.serial.value,
                   LAMBDA serial_text :
                       LET compact == Remove(serial_text, <<" ">>)
                           m == Search(compact, <<Rep(Digit, 1, 8)>>, 0)
                       IN  IF m = <<>> THEN None ELSE Some(Group(compact, m, 1))),
         \* parser.py:264-272
         vehicle_direction |-> vehicle_direction,
         vehicle_value |->
             IfSet(select.vehicle.value,
                   LAMBDA vehicle_text :
                       clean_vehicle_no(
                           IF TruthyStr(vehicle_direction)
                           THEN Strip(RemoveAll(vehicle_text, AllDirectionKeywords))
                           ELSE vehicle_text)),
         \* parser.py:280, 284
         item_value |-> split[1],
         split_detected |-> IfSet(split[2], detect_direction_from_text),
         \* parser.py:295
         label_detected |-> IfSet(select.direction.value, detect_direction_from_text),
         \* parser.py:301
         line_detected |-> detect_direction_from_text(line.cleaned),
         \* parser.py:311, 314, 320, 323, 329, 335
         gross_weight |-> IfSet(select.gross.value, extract_weight),
         gross_time |-> IfSet(select.gross.value, extract_time),
         tare_weight |-> IfSet(select.tare.value, extract_weight),
         tare_time |-> IfSet(select.tare.value, extract_time),
         net_weight |-> IfSet(select.net.value, extract_weight),
         deduction_weight |-> IfSet(select.deduction.value, extract_weight),
         \* parser.py:339-344
         weight_label |->
             \E key \in {"gross", "tare", "net", "deduction"} :
                 find_label_span(line.cleaned, LABELS[key]) # None,
         weight |-> extract_weight(line.cleaned),
         time_value |-> extract_time(line.cleaned),
         \* parser.py:349, 351
         timestamp |-> extract_timestamp(line.cleaned),
         gps |-> extract_gps(line.cleaned),
         \* parser.py:172-188, what find_issuer asks of a line
         issuer_by_marker |-> IssuerByMarker(line),
         issuer_by_position |-> IssuerByPosition(line)]
        Selected(select) ==
            Gather(FirstIndex(SALUTATION_KEYWORDS,
                              LAMBDA keyword : Contains(line.cleaned, keyword)),
                   select,
                   IfSet(select.vehicle.value, detect_direction_from_text),
                   split_item_direction(line))
    IN  Selected([family \in {"serial", "vehicle", "partner", "item",
                              "direction", "gross", "tare", "net", "deduction"} |->
                     select_value_after_label(line, LABELS[family])])

\* the line texts the documents are made of
Vocabulary ==
    {Text("[chong][jung][ryang]: 1,000 kg"),
     Text("[chong][jung][ryang]: 0 kg"),
     Text("[gong][cha][jung][ryang]: 0 kg"),
     Text("01:00 0 kg"),
     Text("01:10 800 kg"),
     Text("01:20 900 kg"),
     Text("[pum][myeong]: [gug][pan]"),
     Text("N")}

\* further line texts, by the part of the parse loop they exercise
Vocabularies ==
    [\* a weight label with one character misread, or a character lost
     fuzzy |->
        {Text("[cha][jung][rang]: 1,200 kg"),
         Text("[chong][rang][ryang]: 1,500 kg"),
         Text("[gong][cha][jung][rang]: 700 kg"),
         Text("[gong][jung][ryang]: 1,500 kg"),
         Text("[gong][pum][jung][ryang]: 700 kg"),
         Text("[cha][jung].: 1,200 kg"),
         Text("[cha][jung][rang]: 01:10 1,200 kg")},
     \* a date label with a date of the 4-2-2 grouping, or with another
     date |->
        {Text("[nal][jja]: 2026-2-1"),
         Text("[nal][jja]: 2026-02-01"),
         Text("[il][ja]: 2026.02.01-0001"),
         Text("[nal][jja]: 2026-2-1 12345678"),
         Text("[chong][jung][ryang]: 100 kg"),
         Text("[il][si]: 2025 12 01")},
     \* a direction after a label, in a vehicle value, or alone on the line
     direction |->
        {Text("[gu][bun]: [ip][go]"),
         Text("[pum][myeong]: [gug][pan] [gu][bun]: [chul][go]"),
         Text("[cha][ryang][beon][ho]: 12[ga]3456 [chul][go]"),
         Text("[cha][ryang][beon][ho]: [ip][go] 12[ga]"),
         Text("[cha][ryang][beon][ho]: 12[ga]3456"),
         Text("[chul][go]"),
         Text("[ip][go]"),
         Text("[chul]")}]

\* the facts of the lines of the vocabularies, computed once
FactsTable == {<<LineInfo(t), LineFacts(LineInfo(t))>> : t \in Vocabulary \cup UNION {Vocabularies[part] : part \in DOMAIN Vocabularies}}

Facts(line) ==
    LET Lookup(entries) ==
            IF entries # {} THEN (CHOOSE entry \in entries : TRUE)[2]
            ELSE LineFacts(line)
    IN  Lookup({entry \in FactsTable : entry[1] = line})

find_issuer(lines) ==
    LET Issuer(facts) ==
            LET Pick(byMarker, byPosition) ==
                    IF byMarker # 0
                    THEN Some(Remove(lines[byMarker].cleaned, <<" ">>))
                    ELSE IF byPosition # {}
                    THEN Some(lines[CHOOSE i \in byPosition :
                                        \A j \in byPosition : j <= i].cleaned)
                    ELSE None
            IN  Pick(FirstIndex(facts, LAMBDA f : f.issuer_by_marker),
                     {i \in 1..Len(lines) : facts[i].issuer_by_position})
    IN  Issuer([i \in 1..Len(lines) |-> Facts(lines[i])])

\* select_value_after_label(line, LABELS[family], warnings): the state with
\* the warning the call may add, and the value
Select(st, f, family) ==
    LET sel == f.select[family]
    IN  [st |-> IF sel.empty = None THEN st
                ELSE [st EXCEPT !.warnings =
                         add_warning(@, "label_empty_value", Val(sel.empty), None)],
         value |-> sel.value]

\* `a or b` of two Optional[str]
OrElse(a, b) == IF TruthyStr(a) THEN a ELSE b

\* parser.py:239-245
StepSalutation(st, f) ==
    IF ~TruthyStr(st.record.partner_name) /\ TruthyStr(f.partner_value)
    THEN [st EXCEPT !.record.partner_name =
                        Some(Remove(Val(f.partner_value), <<" ">>))]
    ELSE st

\* parser.py:247-254
StepDate(st, f) ==
    LET date_value == f.date_serial[1]
        serial_value == f.date_serial[2]
    IN  [st EXCEPT
            !.record.weigh_date =
                IF TruthyStr(date_value) THEN OrElse(@, date_value) ELSE @,
            !.record.serial_no =
                IF TruthyStr(serial_value) THEN OrElse(@, serial_value) ELSE @]

\* parser.py:256-260
StepSerial(st0, f) ==
    LET got == Select(st0, f, "serial")
        st == got.st
        serial_text == got.value
    IN  IF TruthyStr(serial_text) /\ ~TruthyStr(st.record.serial_no)
           /\ f.serial_match # None
        THEN [st EXCEPT !.record.serial_no = f.serial_match]
        ELSE st

\* parser.py:262-274
StepVehicle(st0, f) ==
    LET got == Select(st0, f, "vehicle")
        st == got.st
        vehicle_text == got.value
        direction == f.vehicle_direction
        vehicle_value == f.vehicle_value
    IN  IF ~TruthyStr(vehicle_text) THEN st
        ELSE [st EXCEPT
                 !.record.direction =
                     IF TruthyStr(direction) THEN OrElse(@, direction) ELSE @,
                 !.direction_source =
                     IF TruthyStr(direction) THEN "weak" ELSE @,
                 !.record.vehicle_no =
                     IF TruthyStr(vehicle_value) THEN OrElse(@, vehicle_value)
                     ELSE @]

\* parser.py:276-278
StepPartner(st0, f) ==
    LET got == Select(st0, f, "partner")
        st == got.st
        partner_text == got.value
    IN  IF ~TruthyStr(partner_text) THEN st
        ELSE [st EXCEPT !.record.partner_name =
                 OrElse(@, Some(Remove(Val(partner_text), <<" ">>)))]

\* parser.py:285-287 and 296-298: a direction read after a direction label
LabelDirection(st, detected) ==
    IF TruthyStr(detected)
    THEN [st EXCEPT !.record.direction = detected,
                    !.direction_source = "label"]
    ELSE st

\* parser.py:280-287
StepSplit(st, f) ==
    LET item_value == f.item_value
        st1 == IF TruthyStr(item_value) /\ ~TruthyStr(st.record.item_name)
               THEN [st EXCEPT !.record.item_name =
                                   clean_item_name(Val(item_value))]
               ELSE st
    IN  LabelDirection(st1, f.split_detected)

\* parser.py:289-291
StepItem(st0, f) ==
    LET got == Select(st0, f, "item")
        st == got.st
        item_text == got.value
    IN  IF TruthyStr(item_text) /\ ~TruthyStr(st.record.item_name)
        THEN [st EXCEPT !.record.item_name = clean_item_name(Val(item_text))]
        ELSE st

\* parser.py:293-298
StepDirection(st0, f) ==
    LabelDirection(Select(st0, f, "direction").st, f.label_detected)

\* a faulty variant: the last keyword wins over a weak direction
StepWeakDirectionLastWins(st, f) ==
    LET detected == f.line_detected
    IN  IF st.direction_source = "label" \/ ~TruthyStr(detected) THEN st
        ELSE [st EXCEPT !.record.direction = detected,
                        !.direction_source = "weak"]

\* a faulty variant: only the outbound keyword sets the direction
StepWeakDirectionOutOnly(st, f) ==
    LET detected == f.line_detected
    IN  IF st.direction_source = "label" \/ ~TruthyStr(detected) THEN st
        ELSE [st EXCEPT
                 !.record.direction =
                     IF detected = Some(DIRECTION_OUT) THEN detected ELSE @,
                 !.direction_source = "weak"]

\* parser.py:300-307
StepWeakDirection(st, f) ==
    LET detected == f.line_detected
    IN  IF st.direction_source = "label" \/ ~TruthyStr(detected) THEN st
        ELSE [st EXCEPT
                 !.record.direction =
                     IF st.direction_source = "weak" /\ detected = Some(DIRECTION_OUT)
                     THEN detected
                     ELSE IF st.direction_source = "none" THEN detected
                     ELSE @,
                 !.direction_source = "weak"]

\* a value read after a label fills the field that `is None`
\* (parser.py:312-313, 315-316, 321-322, 324-325, 330-331, 336-337)
Fill(st, field, value) ==
    IF value # None /\ st.record[field] = None
    THEN [st EXCEPT !.record[field] = value]
    ELSE st

\* parser.py:309-316
StepGross(st0, f) ==
    Fill(Fill(Select(st0, f, "gross").st, "gross_weight_kg", f.gross_weight),
         "weigh_time_in", f.gross_time)

\* parser.py:318-325
StepTare(st0, f) ==
    Fill(Fill(Select(st0, f, "tare").st, "tare_weight_kg", f.tare_weight),
         "weigh_time_out", f.tare_time)

\* parser.py:327-331
StepNet(st0, f) ==
    Fill(Select(st0, f, "net").st, "net_weight_kg", f.net_weight)

\* parser.py:333-337
StepDeduction(st0, f) ==
    Fill(Select(st0, f, "deduction").st, "deduction_weight_kg", f.deduction_weight)

\* parser.py:339-346; i is the index of the line, from 0
StepCandidate(st, f, i) ==
    IF ~f.weight_label /\ TruthyNum(f.weight) /\ TruthyStr(f.time_value)
    THEN [st EXCEPT !.candidate_time_weight =
                        Append(@, <<Val(f.time_value), Val(f.weight), i>>)]
    ELSE st

\* parser.py:348-351
StepStamp(st, f) ==
    [st EXCEPT
        !.record.timestamp = IF ~TruthyStr(@) THEN OrElse(f.timestamp, @) ELSE @,
        !.record.gps = IF @ = None /\ f.gps # None THEN f.gps ELSE @]

\* one turn of the loop of parse_preprocessed (parser.py:238-351) on a line
\* with the facts f
ParseLineBody(st, f, i) ==
    LET s1 == StepSalutation(st, f)
        s2 == StepDate(s1, f)
        s3 == StepSerial(s2, f)
        s4 == StepVehicle(s3, f)
        s5 == StepPartner(s4, f)
        s6 == StepSplit(s5, f)
        s7 == StepItem(s6, f)
        s8 == StepDirection(s7, f)
        s9 == StepWeakDirection(s8, f)
        s10 == StepGross(s9, f)
        s11 == StepTare(s10, f)
        s12 == StepNet(s11, f)
        s13 == StepDeduction(s12, f)
        s14 == StepCandidate(s13, f, i)
    IN  StepStamp(s14, f)

\* parser.py:353-358
InferGross(st) ==
    IF st.candidate_time_weight # <<>> /\ ~TruthyNum(st.record.gross_weight_kg)
    THEN [st EXCEPT
             !.record.gross_weight_kg = Some(st.candidate_time_weight[1][2]),
             !.record.weigh_time_in =
                 OrElse(@, Some(st.candidate_time_weight[1][1])),
             !.warnings =
                 add_warning(@, "gross_inferred_from_time_weight", NoContext, None)]
    ELSE st

\* parser.py:359-363
InferTare(st) ==
    IF Len(st.candidate_time_weight) > 1 /\ ~TruthyNum(st.record.tare_weight_kg)
    THEN [st EXCEPT
             !.record.tare_weight_kg = Some(st.candidate_time_weight[2][2]),
             !.record.weigh_time_out =
                 OrElse(@, Some(st.candidate_time_weight[2][1])),
             !.warnings =
                 add_warning(@, "tare_inferred_from_time_weight", NoContext, None)]
    ELSE st

\* parser.py:353-365: the deferred pairs, then the issuer
PostPassBody(st, lines) ==
    [InferTare(InferGross(st)) EXCEPT
        !.record.issuer = OrElse(find_issuer(lines), @)]

(***************************************************************************)
(* Specification SpecWarn: any sequence of add_warning calls on one list   *)
(***************************************************************************)
MaxWarnings == 3

\* the arguments (code, context, severity) of the calls made: every short
\* name of the table as the program passes it, the same key under another
\* severity, contexts that differ in a value, codes already standardized and
\* a code the table does not know
WarnCalls ==
    {<<c, NoContext, None>> : c \in DOMAIN WARNING_CODE_MAP}
    \cup {<<"net_mismatch", NoContext, Some("INFO")>>,
          <<"noise_lines_removed", [count |-> 1], None>>,
          <<"noise_lines_removed", [count |-> 2], None>>,
          <<"VAL-CHK-001", NoContext, None>>,
          <<"VAL-CHK-001", [legacy_code |-> "net_mismatch"], None>>,
          <<"custom_code", NoContext, None>>}

Idle ==
    /\ source = None
    /\ payload = None
    /\ raw_text = <<>>
    /\ line_infos = <<>>
    /\ idx = 0
    /\ record = ParsedRecord
    /\ direction_source = "none"
    /\ candidate_time_weight = <<>>
    /\ raised = None

InitWarn ==
    /\ Idle
    /\ pc = "warn"
    /\ warnings = <<>>
    /\ call = None

AddWarning ==
    /\ pc = "warn"
    /\ Len(warnings) < MaxWarnings
    /\ \E c \in WarnCalls :
          /\ call' = Some(c)
          /\ warnings' = add_warning(warnings, c[1], c[2], c[3])
    /\ UNCHANGED <<pc, source, payload, raw_text, line_infos, idx, record,
                   direction_source, candidate_time_weight, raised>>

NextWarn == AddWarning

SpecWarn == InitWarn /\ [][NextWarn]_vars

WarningKeys(ws) == {_warning_key(ws[i]) : i \in 1..Len(ws)}

CallKey(c) == _warning_key(NewWarning(c[1], c[2], c[3]))

\* C5: no two warnings of the list have the same key, and a call whose key
\* the list already holds leaves the list as it is
C5_WarningDedup ==
    /\ \A i, j \in 1..Len(warnings) :
          i # j => _warning_key(warnings[i]) # _warning_key(warnings[j])
    /\ \A c \in WarnCalls :
          CallKey(c) \in WarningKeys(warnings)
             => add_warning(warnings, c[1], c[2], c[3]) = warnings

\* a call has just been absorbed: its key is in the list under another severity
C5_Witness ==
    /\ pc = "warn"
    /\ call # None
    /\ Len(warnings) >= 2
    /\ CallKey(Val(call)) \in WarningKeys(warnings)
    /\ \A i \in 1..Len(warnings) :
          warnings[i] # NewWarning(Val(call)[1], Val(call)[2], Val(call)[3])

\* the warning the last call stands for is in the list, whoever created it
CallRecorded == CallKey(Val(call)) \in WarningKeys(warnings)

\* C9 as stated: a warning created from a short name of the table has a code
\* of the form AAA-BBB-NNN
C9_Original ==
    (call # None /\ Val(call)[1] \in DOMAIN WARNING_CODE_MAP)
       => \A i \in 1..Len(warnings) :
             _warning_key(warnings[i]) = CallKey(Val(call))
                => MatchesStandardForm(warnings[i].code)

\* three upper-case letters, three or four upper-case letters, three digits
MatchesTableForm(code) ==
    LET n == Len(code)
    IN  /\ n \in {11, 12}
        /\ \A i \in {1, 2, 3} : Ch(code, i) \in Upper
        /\ Ch(code, 4) = "-"
        /\ \A i \in 5..(n - 4) : Ch(code, i) \in Upper
        /\ Ch(code, n - 3) = "-"
        /\ \A i \in (n - 2)..n : Ch(code, i) \in Digit

\* C9 amended: a warning created from a short name of the table has a code of
\* the form AAA-BBB-NNN or AAA-BBBB-NNN (three letters, three or four letters,
\* three digits); a code already of the form AAA-BBB-NNN is stored unchanged
C9_CodeForm ==
    call # None =>
       /\ CallRecorded
       /\ Val(call)[1] \in DOMAIN WARNING_CODE_MAP
             => \A i \in 1..Len(warnings) :
                   _warning_key(warnings[i]) = CallKey(Val(call))
                      => MatchesTableForm(warnings[i].code)
       /\ MatchesStandardForm(Val(call)[1])
             => \E i \in 1..Len(warnings) :
                   /\ warnings[i].code = Val(call)[1]
                   /\ warnings[i].context = Val(call)[2]

\* a warning with a four-letter middle part has been created from its short name
C9_Witness ==
    /\ call # None
    /\ Val(call)[1] = "label_empty_value"
    /\ \E i \in 1..Len(warnings) : warnings[i].code = "PRS-MISS-001"
    /\ \E i \in 1..Len(warnings) :
          warnings[i].code = "VAL-CHK-001" /\ warnings[i].context = NoContext

(***************************************************************************)
(* Specification SpecFinal: finalize_record on the records and warning     *)
(* lists parse_preprocessed can hand over                                  *)
(***************************************************************************)
MaxWeight == 3

OptWeights == {None} \cup {Some(w) : w \in 0..MaxWeight}

\* the warning lists the earlier stages can have built
RECURSIVE AddAll(_, _)
AddAll(ws, codes) ==
    IF codes = <<>> THEN ws
    ELSE AddAll(add_warning(ws, Head(codes), NoContext, None), Tail(codes))

ParserWarnings ==
    {AddAll(w0, codes) :
        w0 \in {<<>>, add_warning(<<>>, "noise_lines_removed", [count |-> 1], None)},
        codes \in {<<>>,
                   <<"gross_inferred_from_time_weight">>,
                   <<"tare_inferred_from_time_weight">>,
                   <<"gross_inferred_from_time_weight",
                     "tare_inferred_from_time_weight">>}}

ParsedTimes == {<<None, None>>,
                <<Some(Text("01:00")), Some(Text("01:10"))>>,
                <<Some(Text("01:10")), Some(Text("01:00"))>>}

ParsedRecords ==
    {[ParsedRecord EXCEPT !.gross_weight_kg = g, !.tare_weight_kg = t,
                          !.net_weight_kg = n, !.deduction_weight_kg = d,
                          !.partner_name = p, !.item_name = i,
                          !.timestamp = ts,
                          !.weigh_time_in = tm[1], !.weigh_time_out = tm[2]] :
        g \in OptWeights, t \in OptWeights, n \in OptWeights,
        d \in {None, Some(0)},
        p \in {None, Some(Text("[sin][seong]"))},
        i \in {None, Some(Text("[gug][pan]"))},
        ts \in {None, Some(Text("2026-02-02 05:37:55"))},
        tm \in ParsedTimes}

InitFinal ==
    /\ pc = "finalize"
    /\ source = None
    /\ payload = None
    /\ raw_text = <<>>
    /\ line_infos = <<>>
    /\ idx = 0
    /\ direction_source = "none"
    /\ candidate_time_weight = <<>>
    /\ raised = None
    /\ call = None
    /\ record \in ParsedRecords
    /\ warnings \in ParserWarnings

\* pipeline.py:21, finalize_record(record, parse_warnings)
Finalize ==
    /\ pc = "finalize"
    /\ record' = finalize_record(record, warnings)
    /\ warnings' = record'.warnings
    /\ pc' = "done"
    /\ UNCHANGED <<source, payload, raw_text, line_infos, idx,
                   direction_source, candidate_time_weight, raised, call>>

NextFinal == Finalize

SpecFinal == InitFinal /\ [][NextFinal]_vars

HasCode(ws, code) == \E i \in 1..Len(ws) : ws[i].code = code

\* C1: finalize_record, entered with gross and tare set (0 kg included) and
\* net unset, sets net = gross - tare and records VAL-CHK-002
C1_NetInference ==
    [][(/\ pc = "finalize"
        /\ record.gross_weight_kg # None
        /\ record.tare_weight_kg # None
        /\ record.net_weight_kg = None)
       => /\ record'.net_weight_kg =
                Some(Val(record.gross_weight_kg) - Val(record.tare_weight_kg))
          /\ HasCode(warnings', "VAL-CHK-002")]_vars

\* C4: finalize_record, entered with gross, tare and net set, records
\* VAL-CHK-001 exactly when |gross - tare - net| is more than 1 kg
C4_NetMismatch ==
    [][(/\ pc = "finalize"
        /\ record.gross_weight_kg # None
        /\ record.tare_weight_kg # None
        /\ record.net_weight_kg # None)
       => LET d == Val(record.gross_weight_kg) - Val(record.tare_weight_kg)
                   - Val(record.net_weight_kg)
          IN  /\ HasCode(warnings', "VAL-CHK-001") <=> (d > 1 \/ d < -1)
              /\ \A i \in 1..Len(warnings') :
                    warnings'[i].code = "VAL-CHK-001"
                       => warnings'[i].severity = "ERROR"]_vars

\* the finalizer has flagged a difference of 2 kg, the least above the tolerance
C4_Witness ==
    /\ pc = "done"
    /\ record.gross_weight_kg = Some(3)
    /\ record.tare_weight_kg = Some(1)
    /\ record.net_weight_kg = Some(0)
    /\ HasCode(warnings, "VAL-CHK-001")

InferenceCodes == {"PRS-MAP-001", "PRS-MAP-002", "VAL-CHK-002", "VAL-CHK-001"}

\* C6: the finalized parse_confidence is in [0.0, 1.0], and is 1.0 when
\* partner_name, item_name and timestamp are set and no inference or mismatch
\* warning is present
C6_ConfidenceBounds ==
    pc = "done" =>
       /\ record.parse_confidence \in 0..100
       /\ (/\ record.partner_name # None
           /\ record.item_name # None
           /\ record.timestamp # None
           /\ \A c \in InferenceCodes : ~HasCode(record.warnings, c))
          => record.parse_confidence = 100

\* a finalized record with all three fields, other warnings only, scored 1.0
C6_Witness ==
    /\ pc = "done"
    /\ record.partner_name # None
    /\ record.item_name # None
    /\ record.timestamp # None
    /\ record.gross_weight_kg # None
    /\ HasCode(record.warnings, "PRE-CHK-001")
    /\ HasCode(record.warnings, "VAL-CHK-003")
    /\ record.parse_confidence = 100

\* 1 if the returned record has a warning of the code, else 0
Present(code) == IF HasCode(record.warnings, code) THEN 1 ELSE 0

Unset(field) == IF record[field] = None THEN 1 ELSE 0

FloatLE(a, b) == a[1] < b[1] \/ (a[1] = b[1] /\ a[2] <= b[2])

\* the double nearest to 0.65, 0x1.4cccccccccccdp-1
Float065 == <<348966092, 214748368>>

\* the second double below it, 0x1.4cccccccccccbp-1 = 0.6499999999999998
Float065Less2Ulp == <<348966092, 214748336>>

\* the returned record has neither both net warnings nor a score that the
\* clamp changed; lowest is the least score it can have
NetWarningsExclusive(lowest) ==
    pc = "done"
    => /\ ~(HasCode(record.warnings, "VAL-CHK-002") /\ HasCode(record.warnings, "VAL-CHK-001"))
       /\ record.parse_confidence = Confidence(record, record.warnings)
       /\ record.parse_confidence >= 65
       /\ FloatLE(lowest, ConfidenceFloat(record, record.warnings))
       /\ FloatLE(ConfidenceFloat(record, record.warnings), Float(100))

\* C21 as stated: net_inferred_from_gross_tare and net_mismatch are never
\* both present, so parse_confidence is never below 0.65 and the clamp never
\* changes the computed value
C21_Original == NetWarningsExclusive(Float065)

\* C21, amended: net_inferred_from_gross_tare and net_mismatch are never both
\* present, so the computed score is 0.65 or more in decimal arithmetic and,
\* as the double the code computes, never below 0.6499999999999998 (0.65
\* less the rounding of the subtractions); the clamp never changes it
C21_ExclusiveNetWarnings == NetWarningsExclusive(Float065Less2Ulp)

\* the finalizer computed net from two inferred weights, with the three
\* fields unset: no mismatch, score 0.72
C21_Witness ==
    /\ pc = "done"
    /\ HasCode(record.warnings, "PRS-MAP-001")
    /\ HasCode(record.warnings, "PRS-MAP-002")
    /\ HasCode(record.warnings, "VAL-CHK-002")
    /\ ~HasCode(record.warnings, "VAL-CHK-001")
    /\ record.net_weight_kg = Some(Val(record.gross_weight_kg) - Val(record.tare_weight_kg))
    /\ Unset("partner_name") + Unset("item_name") + Unset("timestamp") = 3
    /\ record.parse_confidence = 72
    /\ FloatLE(Float065, ConfidenceFloat(record, record.warnings))

\* finalize_record on records whose weights lie at and beyond the two limits
SpecRange ==
    /\ pc = "finalize"
    /\ source = None
    /\ payload = None
    /\ raw_text = <<>>
    /\ line_infos = <<>>
    /\ idx = 0
    /\ direction_source = "none"
    /\ candidate_time_weight = <<>>
    /\ raised = None
    /\ call = None
    /\ record \in {[ParsedRecord EXCEPT !.gross_weight_kg = w[1], !.tare_weight_kg = w[2],
                                          !.net_weight_kg = w[3], !.deduction_weight_kg = w[4]] :
                       w \in [1..4 -> {None, Some(MIN_WEIGHT_KG - 1), Some(MIN_WEIGHT_KG),
                                        Some(MAX_WEIGHT_KG), Some(MAX_WEIGHT_KG + 1)}]}
    /\ warnings \in ParserWarnings
    /\ [][NextFinal]_vars

\* the list has a warning of the code and severity whose context names the field
Reported(ws, code, severity, field) ==
    \E i \in 1..Len(ws) : /\ ws[i].code = code
                           /\ ws[i].severity = severity
                           /\ ws[i].context # NoContext
                           /\ ws[i].context.field = field

\* C17: for each of the four weight fields of the record handed to the
\* finalizer, a negative_weight warning (VAL-CHK-004, ERROR) naming the field
\* is recorded iff the field is set and below 0, and a weight_exceeds_limit
\* warning (VAL-CHK-005, WARN) naming the field iff it is set and above
\* 100000; no other warning of the two codes is recorded
C17_WeightRange ==
    [][pc = "finalize"
       => /\ \A k \in 1..Len(weight_fields) :
                /\ Reported(record'.warnings, "VAL-CHK-004", "ERROR", weight_fields[k])
                   <=> (record[weight_fields[k]] # None /\ Val(record[weight_fields[k]]) < 0)
                /\ Reported(record'.warnings, "VAL-CHK-005", "WARN", weight_fields[k])
                   <=> (record[weight_fields[k]] # None /\ Val(record[weight_fields[k]]) > 100000)
          /\ \A i \in 1..Len(record'.warnings) :
                record'.warnings[i].code \in {"VAL-CHK-004", "VAL-CHK-005"}
                => \E k \in 1..Len(weight_fields) :
                      /\ record'.warnings[i].context.field = weight_fields[k]
                      /\ record'.warnings[i].context.value = Val(record[weight_fields[k]])
                      /\ record'.warnings[i].severity =
                            IF record'.warnings[i].code = "VAL-CHK-004" THEN "ERROR" ELSE "WARN"]_vars

\* a negative gross and an exceeding tare were reported, and the net weight
\* at the limit and the deduction of 0 kg were not
C17_Witness ==
    /\ pc = "done"
    /\ record.gross_weight_kg = Some(0 - 1)
    /\ record.tare_weight_kg = Some(100001)
    /\ record.net_weight_kg = Some(100000)
    /\ record.deduction_weight_kg = Some(0)
    /\ Reported(record.warnings, "VAL-CHK-004", "ERROR", "gross_weight_kg")
    /\ Reported(record.warnings, "VAL-CHK-005", "WARN", "tare_weight_kg")
    /\ ~Reported(record.warnings, "VAL-CHK-005", "WARN", "net_weight_kg")
    /\ ~Reported(record.warnings, "VAL-CHK-004", "ERROR", "deduction_weight_kg")

\* C19: every weight field of the returned record that is below 0 kg has a
\* negative_weight warning naming it, the net weight computed by the
\* finalizer as gross - tare included
C19_NegativeReported ==
    pc = "done"
    => \A k \in 1..Len(weight_fields) :
          (record[weight_fields[k]] # None /\ Val(record[weight_fields[k]]) < 0)
          => \E i \in 1..Len(record.warnings) :
                /\ record.warnings[i].code = "VAL-CHK-004"
                /\ record.warnings[i].context.field = weight_fields[k]

(***************************************************************************)
(* Specification Spec: run_pipeline(input_path) on one source, a step at a *)
(* time: load_ocr_json, preprocess_payload, the turns of the loop of       *)
(* parse_preprocessed, its post-pass, finalize_record.                     *)
(***************************************************************************)
MaxLines == 3

RECURSIVE SeqsUpTo(_, _)
SeqsUpTo(S, n) ==
    IF n = 0 THEN {<<>>}
    ELSE SeqsUpTo(S, n - 1)
         \cup {Append(q, x) : q \in {r \in SeqsUpTo(S, n - 1) : Len(r) = n - 1},
                              x \in S}

\* an OCR result of one page with the given line texts
Document(texts) ==
    JObj([pages |-> JList(<<JObj([lines |->
             JList([i \in 1..Len(texts) |-> JObj([text |-> JStr(texts[i])])])])>>)])

Documents == {Document(texts) : texts \in SeqsUpTo(Vocabulary, MaxLines)}

\* a page with line texts ls and page text t; JNull stands for an absent key
Page(ls, t) ==
    JObj([lines |-> JList([i \in 1..Len(ls) |-> JObj([text |-> ls[i]])]),
          text |-> t])

TopText == JStr(Text("[chul][go] 01:00 5 kg"))

\* other values a JSON file can hold
Shapes ==
    {JObj(<<>>),
     JObj([text |-> TopText]),
     JObj([pages |-> JList(<<>>), text |-> TopText]),
     JObj([pages |-> JList(<<JObj(<<>>)>>), text |-> TopText]),
     JObj([pages |-> JList(<<Page(<<>>, JNull), Page(<<JStr(<<>>)>>, JStr(<<>>))>>),
           text |-> TopText]),
     JObj([pages |-> JList(<<Page(<<>>, JStr(Text("[ip][go]"))),
                             Page(<<>>, JNull),
                             Page(<<>>, JStr(Text("01:10 7 kg")))>>),
           text |-> TopText]),
     JObj([pages |-> JList(<<Page(<<JStr(Text("[sang][ho]: [sin][seong]"))>>,
                                  JStr(Text("[ip][go]"))),
                             Page(<<JStr(<<>>), JStr(Text("[gu][bun]:"))>>, JNull)>>),
           text |-> TopText]),
     JObj([pages |-> JList(<<Page(<<>>, JNull)>>)]),
     JList(<<>>),
     JNull,
     JNum(5),
     JStr(Text("[chong][jung][ryang]")),
     JObj([text |-> JNum(5)]),
     JObj([text |-> JList(<<JStr(Text("a"))>>)]),
     JObj([pages |-> JNum(3)]),
     JObj([pages |-> JStr(Text("ab"))]),
     JObj([pages |-> JList(<<JNum(1)>>)]),
     JObj([pages |-> JList(<<JObj([lines |-> JNum(5)])>>)]),
     JObj([pages |-> JList(<<JObj([lines |-> JList(<<JNull>>)])>>)]),
     JObj([pages |-> JList(<<JObj([text |-> JNum(7)])>>)]),
     JObj([pages |-> JList(<<JObj([lines |-> JList(<<JObj([text |-> JNum(5)])>>)])>>)])}

\* contents of readable files that are not JSON
RawTexts ==
    {<<>>,
     Text("{[chong][jung][ryang]: 1,000 kg"),
     Text("01:00 5 kg\n\n01:10 3 kg,"),
     Text("{[chong][jung][ryang]: 1,000 kg\r\n01:10 3 kg\r"),
     Text(" \n")}

Sources ==
    {[kind |-> "missing"], [kind |-> "undecodable"]}
    \cup {[kind |-> "text", content |-> c] : c \in RawTexts}
    \cup {[kind |-> "json", value |-> v] : v \in Documents \cup Shapes}

Init ==
    /\ pc = "load"
    /\ source \in Sources
    /\ payload = None
    /\ raw_text = <<>>
    /\ line_infos = <<>>
    /\ idx = 0
    /\ record = ParsedRecord
    /\ warnings = <<>>
    /\ direction_source = "none"
    /\ candidate_time_weight = <<>>
    /\ raised = None
    /\ call = None

\* pipeline.py:18
Load ==
    /\ pc = "load"
    /\ LET r == load_ocr_json(source)
       IN  IF r.ok
           THEN /\ payload' = r.val[1]
                /\ warnings' = r.val[2]
                /\ pc' = "preprocess"
                /\ UNCHANGED raised
           ELSE /\ raised' = Some(r.exc)
                /\ pc' = "raised"
                /\ UNCHANGED <<payload, warnings>>
    /\ UNCHANGED <<source, raw_text, line_infos, idx, record, direction_source,
                   candidate_time_weight, call>>

\* pipeline.py:19
Preprocess ==
    /\ pc = "preprocess"
    /\ LET Returns(r) ==
               IF r.ok
               THEN /\ raw_text' = r.val.raw_text
                    /\ line_infos' = r.val.line_infos
                    /\ warnings' = r.val.warnings
                    /\ pc' = "begin"
                    /\ UNCHANGED raised
               ELSE /\ raised' = Some(r.exc)
                    /\ pc' = "raised"
                    /\ UNCHANGED <<raw_text, line_infos, warnings>>
       IN  Returns(preprocess_payload(payload, warnings))
    /\ UNCHANGED <<source, payload, idx, record, direction_source,
                   candidate_time_weight, call>>

\* parser.py:227-236
BeginParse ==
    /\ pc = "begin"
    /\ record' = [ParsedRecord EXCEPT !.raw_text = raw_text,
                                      !.doc_type = detect_doc_type(line_infos)]
    /\ candidate_time_weight' = <<>>
    /\ direction_source' = "none"
    /\ idx' = 0
    /\ pc' = "parse"
    /\ UNCHANGED <<source, payload, raw_text, line_infos, warnings, raised, call>>

LoopState ==
    [record |-> record, warnings |-> warnings,
     direction_source |-> direction_source,
     candidate_time_weight |-> candidate_time_weight]

\* parser.py:238-351, the turn of the loop on line_infos[idx]
ParseLine ==
    /\ pc = "parse"
    /\ idx < Len(line_infos)
    /\ LET Becomes(st) ==
               /\ record' = st.record
               /\ warnings' = st.warnings
               /\ direction_source' = st.direction_source
               /\ candidate_time_weight' = st.candidate_time_weight
       IN  Becomes(ParseLineBody(LoopState, Facts(line_infos[idx + 1]), idx))
    /\ idx' = idx + 1
    /\ UNCHANGED <<pc, source, payload, raw_text, line_infos, raised, call>>

\* parser.py:353-367, after the last line
PostPass ==
    /\ pc = "parse"
    /\ idx = Len(line_infos)
    /\ LET Becomes(st) ==
               /\ record' = st.record
               /\ warnings' = st.warnings
       IN  Becomes(PostPassBody(LoopState, line_infos))
    /\ pc' = "finalize"
    /\ UNCHANGED <<source, payload, raw_text, line_infos, idx, direction_source,
                   candidate_time_weight, raised, call>>

Next == Load \/ Preprocess \/ BeginParse \/ ParseLine \/ PostPass \/ Finalize

Spec == Init /\ [][Next]_vars

\* the fields of the record that the assembly fills, direction apart
FirstWriterFields ==
    {"weigh_date", "weigh_time_in", "weigh_time_out", "serial_no", "vehicle_no",
     "partner_name", "item_name", "gross_weight_kg", "tare_weight_kg",
     "net_weight_kg", "deduction_weight_kg", "issuer", "timestamp", "gps"}

\* C2: a field other than direction that holds a value during the assembly
\* keeps that value through the later lines, the post-pass and the finalizer
C2_FirstWriterWins ==
    [][(pc \in {"parse", "finalize"})
       => (\A field \in FirstWriterFields :
              record[field] # None => record'[field] = record[field])]_vars

\* the positions of the lines that hold a time and a weight, in document order
TimeWeightLines ==
    SelectSeq([i \in 1..Len(line_infos) |-> i],
              LAMBDA i : /\ Facts(line_infos[i]).weight # None
                         /\ Facts(line_infos[i]).time_value # None)

NoWeightLabels ==
    \A i \in 1..Len(line_infos) : ~Facts(line_infos[i]).weight_label

\* C3: in a document without weight labels and with two or more lines that
\* hold a time and a weight, the first such line gives gross and time in, the
\* second gives tare and time out, the others give nothing, net is their
\* difference and the three inference warnings are present
C3_DeferredPairing ==
    (pc = "done" /\ NoWeightLabels /\ Len(TimeWeightLines) >= 2)
    => LET first == Facts(line_infos[TimeWeightLines[1]])
           second == Facts(line_infos[TimeWeightLines[2]])
       IN  /\ record.gross_weight_kg = first.weight
           /\ record.weigh_time_in = first.time_value
           /\ record.tare_weight_kg = second.weight
           /\ record.weigh_time_out = second.time_value
           /\ record.net_weight_kg = Some(Val(first.weight) - Val(second.weight))
           /\ HasCode(record.warnings, "PRS-MAP-001")
           /\ HasCode(record.warnings, "PRS-MAP-002")
           /\ HasCode(record.warnings, "VAL-CHK-002")

\* C7: once the loader has handed over a payload, no exception leaves the
\* pipeline
C7_NeverRaises == payload # None => pc # "raised"

\* C8 as stated: a missing source raises ValidationError "not found", an
\* undecodable one ValidationError "load failed"; a readable source that is
\* not JSON raises nothing, and its record has INP-FMT-001 and the original
\* content verbatim as raw_text
C8_Original ==
    /\ (source.kind = "missing" /\ pc # "load")
       => /\ pc = "raised"
          /\ raised = Some(Exception("ValidationError", "not found"))
    /\ (source.kind = "undecodable" /\ pc # "load")
       => /\ pc = "raised"
          /\ raised = Some(Exception("ValidationError", "load failed"))
    /\ source.kind = "text"
       => /\ raised = None
          /\ pc # "raised"
          /\ pc = "done"
             => /\ HasCode(record.warnings, "INP-FMT-001")
                /\ record.raw_text = source.content

\* the positions of s that hold a line break: a CR, or an LF not after a CR
LineBreaks(s) ==
    {i \in 1..Len(s) : \/ s[i] = "\r"
                       \/ s[i] = "\n" /\ (i = 1 \/ s[i - 1] # "\r")}

\* C8, amended: the same outcomes for a missing and an undecodable source;
\* for a readable source that is not JSON nothing is raised and the record
\* has INP-FMT-001 and raw_text holding the content with every line break
\* (CR LF, CR or LF) as one LF, so verbatim when the content has no CR
C8_LoadOutcomes ==
    /\ (source.kind = "missing" /\ pc # "load")
       => /\ pc = "raised"
          /\ raised = Some(Exception("ValidationError", "not found"))
    /\ (source.kind = "undecodable" /\ pc # "load")
       => /\ pc = "raised"
          /\ raised = Some(Exception("ValidationError", "load failed"))
    /\ source.kind = "text"
       => /\ raised = None
          /\ pc # "raised"
          /\ pc = "done"
             => /\ HasCode(record.warnings, "INP-FMT-001")
                /\ Drop(record.raw_text, {"\r", "\n"})
                      = Drop(source.content, {"\r", "\n"})
                /\ \A i \in 1..Len(record.raw_text) : record.raw_text[i] # "\r"
                /\ Cardinality(LineBreaks(record.raw_text))
                      = Cardinality(LineBreaks(source.content))
                /\ (\A i \in 1..Len(source.content) : source.content[i] # "\r")
                   => record.raw_text = source.content

\* a file that is not JSON and has CR LF line ends has been parsed to the
\* end, its text read as one line
C8_Witness ==
    /\ pc = "done"
    /\ source.kind = "text"
    /\ \E i \in 1..Len(source.content) : source.content[i] = "\r"
    /\ record.gross_weight_kg = Some(1000)
    /\ HasCode(record.warnings, "INP-FMT-001")
    /\ record.raw_text # source.content

\* v is absent (null) or a string
OptStr(v) == v.t \in {"null", "str"}

\* a payload of the documented shape: pages of lines, page texts, a top text
WellFormed(pl) ==
    /\ pl.t = "obj"
    /\ DOMAIN pl.fields \subseteq {"pages", "text"}
    /\ "text" \in DOMAIN pl.fields => OptStr(pl.fields.text)
    /\ "pages" \in DOMAIN pl.fields
       => /\ pl.fields.pages.t = "list"
          /\ \A i \in 1..Len(pl.fields.pages.items) :
                LET page == pl.fields.pages.items[i]
                IN  /\ page.t = "obj"
                    /\ DOMAIN page.fields \subseteq {"lines", "text"}
                    /\ "text" \in DOMAIN page.fields => OptStr(page.fields.text)
                    /\ "lines" \in DOMAIN page.fields
                       => /\ page.fields.lines.t = "list"
                          /\ \A j \in 1..Len(page.fields.lines.items) :
                                LET line == page.fields.lines.items[j]
                                IN  /\ line.t = "obj"
                                    /\ DOMAIN line.fields \subseteq {"text"}
                                    /\ "text" \in DOMAIN line.fields
                                       => OptStr(line.fields.text)

PagesOf(pl) ==
    IF "pages" \in DOMAIN pl.fields THEN pl.fields.pages.items ELSE <<>>

\* the non-empty strings among the "text" entries of a list of objects
TextsOf(objects) ==
    LET texts == [i \in 1..Len(objects) |->
                     IF "text" \in DOMAIN objects[i].fields
                     THEN objects[i].fields.text ELSE JNull]
    IN  SelectSeq(texts, LAMBDA v : v.t = "str" /\ v.s # <<>>)

RECURSIVE LineTextsOf(_)
LineTextsOf(pages) ==
    IF pages = <<>> THEN <<>>
    ELSE TextsOf(IF "lines" \in DOMAIN Head(pages).fields
                 THEN Head(pages).fields.lines.items ELSE <<>>)
         \o LineTextsOf(Tail(pages))

\* the strings of a list of JSON strings, joined by newlines
Joined(texts) == JoinLines([i \in 1..Len(texts) |-> texts[i].s])

\* what extract_lines has to return by the precedence; topWhen says when the
\* top-level text is the fallback
Precedence(pl, topWhen) ==
    IF LineTextsOf(PagesOf(pl)) # <<>> THEN LineTextsOf(PagesOf(pl))
    ELSE IF TextsOf(PagesOf(pl)) # <<>> THEN TextsOf(PagesOf(pl))
    ELSE IF topWhen THEN TextsOf(<<pl>>)
    ELSE <<>>

\* C10 as stated: the top-level text is the fallback only if the payload
\* has no pages at all
C10_Original ==
    (payload # None /\ WellFormed(payload))
    => extract_lines(payload) = OK(Precedence(payload, PagesOf(payload) = <<>>))

\* C10: extract_lines returns the non-empty line texts of the pages in order
\* if there is one, otherwise the non-empty page texts if there is one,
\* otherwise the top-level text if it is non-empty, otherwise nothing
C10_LinePrecedence ==
    (payload # None /\ WellFormed(payload))
    => /\ extract_lines(payload) = OK(Precedence(payload, TRUE))
       /\ pc \notin {"preprocess", "raised"}
          => raw_text = Joined(Precedence(payload, TRUE))

\* pages without any text and a top-level text: the top-level text was read
C10_Witness ==
    /\ pc = "begin"
    /\ payload # None
    /\ WellFormed(payload)
    /\ PagesOf(payload) # <<>>
    /\ LineTextsOf(PagesOf(payload)) = <<>>
    /\ TextsOf(PagesOf(payload)) = <<>>
    /\ raw_text = TopText.s

\* a line without meaning: nothing but whitespace and punctuation, or the
\* characters N or [eops][da] with nothing else but whitespace and punctuation
NoiseText(text) == Keep(text, Alnum) \in {<<>>, <<"N">>, Text("[eops][da]")}

\* the lines extract_lines returns for the payload
ExtractedTexts == [i \in 1..Len(extract_lines(payload).val) |-> extract_lines(payload).val[i].s]

NoiseWarnings == SelectSeq(warnings, LAMBDA w : w.code = "PRE-CHK-001")

\* C18: preprocess_payload returns the extracted lines without the noise
\* lines, in their order; it records one noise_lines_removed warning with
\* the number of removed lines as count if a line was removed and none
\* otherwise; raw_text is the newline join of all extracted lines
C18_NoiseFiltering ==
    (pc = "begin" /\ WellFormed(payload))
    => /\ [i \in 1..Len(line_infos) |-> line_infos[i].raw]
             = SelectSeq(ExtractedTexts, LAMBDA t : ~NoiseText(t))
       /\ \A i \in 1..Len(line_infos) :
             line_infos[i] = [raw |-> line_infos[i].raw,
                              cleaned |-> normalize_spaces(line_infos[i].raw),
                              compact |-> compact_text(line_infos[i].raw)]
       /\ IF Len(line_infos) < Len(ExtractedTexts)
          THEN /\ Len(NoiseWarnings) = 1
               /\ NoiseWarnings[1].context.count = Len(ExtractedTexts) - Len(line_infos)
          ELSE NoiseWarnings = <<>>
       /\ raw_text = JoinLines(ExtractedTexts)

\* two noise lines around a weight line were removed and counted
C18_Witness ==
    /\ pc = "begin"
    /\ WellFormed(payload)
    /\ Len(ExtractedTexts) = 3
    /\ NoiseText(ExtractedTexts[1])
    /\ NoiseText(ExtractedTexts[3])
    /\ Len(line_infos) = 1
    /\ line_infos[1].raw = ExtractedTexts[2]
    /\ Len(NoiseWarnings) = 1
    /\ NoiseWarnings[1].context.count = 2
    /\ raw_text = JoinLines(ExtractedTexts)

(***************************************************************************)
(* Specification SpecFuzzy: run_pipeline on documents whose lines carry    *)
(* misread weight labels                                                   *)
(***************************************************************************)
\* a JSON file of one page, of at most MaxLines lines of the given texts
InitOn(texts) ==
    /\ pc = "load"
    /\ source \in {[kind |-> "json", value |-> Document(doc)] : doc \in SeqsUpTo(texts, MaxLines)}
    /\ payload = None
    /\ raw_text = <<>>
    /\ line_infos = <<>>
    /\ idx = 0
    /\ record = ParsedRecord
    /\ warnings = <<>>
    /\ direction_source = "none"
    /\ candidate_time_weight = <<>>
    /\ raised = None
    /\ call = None

SpecFuzzy == InitOn(Vocabularies.fuzzy) /\ [][Next]_vars

WeightLabels == LABELS.gross \o LABELS.tare \o LABELS.net \o LABELS.deduction

\* some window of the compacted text, of the label's length (and, when
\* pruned, beginning with the label's first character), has a similarity
\* ratio 2 * matched / (2 * length) of at least 0.66 for a label of at most
\* three characters and 0.85 for a longer one
WindowAccepted(text, label, pruned) ==
    LET compacted == Keep(text, Alnum)
        lbl == Keep(label, Alnum)
        n == Len(lbl)
    IN  /\ n > 0
        /\ \E start \in 0..(Len(compacted) - n) :
              LET window == SubSeq(compacted, start + 1, start + n)
              IN  /\ pruned => window[1] = lbl[1]
                  /\ 100 * MatchedCount(lbl, window, 0, n, 0, n)
                        >= (IF n <= 3 THEN 66 ELSE 85) * n

\* lines of a three-character weight label with its second or third
\* character misread as another syllable: <<text, field, value on the line>>
MisreadAccepted ==
    {<<Text("[cha][jung][rang]: 1,200 kg"), "tare_weight_kg", 1200>>,
     <<Text("[chong][rang][ryang]: 1,500 kg"), "gross_weight_kg", 1500>>}

\* lines of a weight label with the first character misread, or one
\* character of a four-character label with no shorter synonym left
MisreadRejected ==
    {<<Text("[gong][jung][ryang]: 1,500 kg"), "gross_weight_kg", 1500>>,
     <<Text("[gong][pum][jung][ryang]: 700 kg"), "tare_weight_kg", 700>>}

MatchesFamily(line, family) == SelectSpan(line.cleaned, LABELS[family])[1] # None

\* C15: a processed line is in the deferred buffer iff it matched none of
\* the four weight label families and both a time and a weight are
\* extracted from the whole line; so no line that matched a weight label,
\* and filled a weight field from it, is a deferred candidate
C15_CandidateAdmission ==
    pc = "parse"
    => \A i \in 1..idx :
          (\E k \in 1..Len(candidate_time_weight) : candidate_time_weight[k][3] = i - 1)
          <=> /\ \A family \in {"gross", "tare", "net", "deduction"} :
                    ~MatchesFamily(line_infos[i], family)
              /\ Facts(line_infos[i]).weight # None
              /\ Facts(line_infos[i]).time_value # None

(***************************************************************************)
(* Specification SpecDate: run_pipeline on documents with date lines       *)
(***************************************************************************)
SpecDate == InitOn(Vocabularies.date) /\ [][Next]_vars

DateSeparators == {"-", ".", "/"} \cup WS

\* the text begins with a date token: four digits, a separator, two digits,
\* a separator, two digits, and no further digit
WellFormedDateToken(text) ==
    /\ Len(text) >= 10
    /\ \A k \in {1, 2, 3, 4, 6, 7, 9, 10} : text[k] \in Digit
    /\ \A k \in {5, 8} : text[k] \in DateSeparators
    /\ Len(text) > 10 => text[11] \notin Digit

DateOfToken(text) ==
    SubSeq(text, 1, 4) \o <<"-">> \o SubSeq(text, 6, 7) \o <<"-">> \o SubSeq(text, 9, 10)

\* what follows the date label of the line
DateTokenOf(line) == select_value_after_label(line, LABELS.date).value

\* C12: weigh_date is set only from the date token of a date-labelled line
\* with a 4-digit year, 2-digit month and 2-digit day separated by '-', '.',
\* '/' or whitespace; a date token of another grouping leaves it unset
C12_MalformedDate ==
    record.weigh_date # None
    => \E i \in 1..Len(line_infos) :
          /\ DateTokenOf(line_infos[i]) # None
          /\ WellFormedDateToken(Val(DateTokenOf(line_infos[i])))
          /\ record.weigh_date = Some(DateOfToken(Val(DateTokenOf(line_infos[i]))))

(***************************************************************************)
(* Specification SpecDir: run_pipeline on documents with direction lines   *)
(***************************************************************************)
SpecDir == InitOn(Vocabularies.direction) /\ [][Next]_vars

\* the loop is about to process this line
NextLine == line_infos[idx + 1]

LoopTurn == pc = "parse" /\ idx < Len(line_infos) /\ idx' = idx + 1

\* the direction read after a direction label of the line (alone, or
\* combined with an item label), if any
LabelDetected(line) ==
    IF TruthyStr(Facts(line).label_detected) THEN Facts(line).label_detected
    ELSE IF TruthyStr(Facts(line).split_detected) THEN Facts(line).split_detected
    ELSE None

\* the direction keyword in the vehicle value of the line, if any
VehicleDetected(line) ==
    IF TruthyStr(Facts(line).select.vehicle.value) /\ TruthyStr(Facts(line).vehicle_direction)
    THEN Facts(line).vehicle_direction
    ELSE None

\* the direction keyword or compact token of the whole line, if any
LineDetected(line) == Facts(line).line_detected

\* C13: once a direction label has set record.direction, a line without a
\* direction-label match leaves record.direction unchanged, whatever keyword
\* its vehicle value or the whole line holds; a line with a direction-label
\* match leaves the direction read after that label
C13_LabelAuthoritative ==
    [][LoopTurn
       => /\ LabelDetected(NextLine) # None
             => record'.direction = LabelDetected(NextLine)
          /\ (direction_source = "label" /\ LabelDetected(NextLine) = None)
             => record'.direction = record.direction]_vars

\* the source and the direction the whole-line step of the next line finds:
\* a keyword in the vehicle value has made the source weak and set a
\* direction that was unset
SourceBefore ==
    IF VehicleDetected(NextLine) # None THEN "weak" ELSE direction_source

DirectionBefore ==
    IF VehicleDetected(NextLine) # None /\ record.direction = None
    THEN VehicleDetected(NextLine)
    ELSE record.direction

\* C14: on a line without a direction-label match whose whole-line
\* detection gives d: with source none the direction becomes d; with source
\* weak and d outbound it becomes outbound; with source weak and d inbound
\* it is unchanged; the source is weak afterwards.  And on every line
\* without a direction-label match an outbound direction stays outbound
C14_WeakPrecedence ==
    [][(LoopTurn /\ LabelDetected(NextLine) = None)
       => /\ (SourceBefore # "label" /\ LineDetected(NextLine) # None)
             => /\ direction_source' = "weak"
                /\ record'.direction =
                      IF SourceBefore = "none" THEN LineDetected(NextLine)
                      ELSE IF LineDetected(NextLine) = Some(DIRECTION_OUT)
                           THEN Some(DIRECTION_OUT)
                           ELSE DirectionBefore
          /\ record.direction = Some(DIRECTION_OUT)
             => record'.direction = Some(DIRECTION_OUT)]_vars

\* an outbound keyword was followed by an inbound keyword, each alone on its
\* line, and the direction is still outbound
C14_Witness ==
    /\ pc = "parse"
    /\ idx = 2
    /\ LineDetected(line_infos[1]) = Some(DIRECTION_OUT)
    /\ LineDetected(line_infos[2]) = Some(DIRECTION_IN)
    /\ LabelDetected(line_infos[1]) = None
    /\ LabelDetected(line_infos[2]) = None
    /\ direction_source = "weak"
    /\ record.direction = Some(DIRECTION_OUT)

\* C20: after any prefix of the lines, direction_source is "none" iff
\* record.direction is unset, and with source "weak" or "label" the
\* direction is one of the two configured direction labels
C20_DirectionSource ==
    pc = "parse"
    => /\ direction_source \in {"none", "weak", "label"}
       /\ direction_source = "none" <=> record.direction = None
       /\ direction_source \in {"weak", "label"}
          => record.direction \in {Some(DIRECTION_IN), Some(DIRECTION_OUT)}

\* two lines were processed, the first without any direction, the second
\* with an inbound keyword
C20_Witness ==
    /\ pc = "parse"
    /\ idx = 2
    /\ LineDetected(line_infos[1]) = None
    /\ LineDetected(line_infos[2]) = Some(DIRECTION_IN)
    /\ direction_source = "weak"
    /\ record.direction = Some(DIRECTION_IN)

====
